---------------------------- MODULE Spec2Model ----------------------------
(***************************************************************************)
(* A model of the car-warranty support agent:                              *)
(*   - the Session/Turn Driver (chatloop), the LangGraph routing between   *)
(*     the assistant node and the tools node, and the Assistant step with  *)
(*     its message-log compaction (clean_state, clean_state2, the          *)
(*     token-budget truncation);                                           *)
(*   - the appointment tools over the appointments table;                  *)
(*   - the CCP purchase / cancel / claim tools over the vehicles,          *)
(*     warranties and claims tables.                                       *)
(* Data files are taken to be well formed (every column present), so the   *)
(* blanket "except Exception" of a tool is not entered by a lookup.        *)
(***************************************************************************)
EXTENDS Integers, Sequences, FiniteSets, TLC

VARIABLES
    \* ---- chatloop (src/assistant.py) ----
    chatPc,            \* "idle" | "loop" | "invoking" | "returned"
    retry_count,       \* chatloop's retry counter
    prompt,            \* chatloop's current prompt
    chatResult,        \* the text chatloop returned
    attempts,          \* outcome of each graph invocation of this chatloop call
    graphInvocations,  \* part_1_graph.invoke calls made by this chatloop call
    turns,             \* chatloop calls made in this session
    \* ---- graph (src/core.py, builder) ----
    node,              \* "none" | "assistant" | "tools" | "end" | "raised"
    messages,          \* the session's persisted message log
    steps,             \* graph supersteps of the running invocation
    \* ---- Assistant.__call__ ----
    aPc,               \* "top" (loop head) | "invoke" (about to call the model)
    localMessages,     \* state["messages"] inside Assistant.__call__
    handed,            \* the log handed to the model at its latest invocation
    reprompted,        \* the step appended "Respond with a real output."
    reinvoked,         \* the model was invoked again after a re-prompt
    stepRaised,        \* the model invocation raised in the latest step
    invokedAfterRaise, \* the model was invoked in a step after it had raised
    entryMessages,     \* state["messages"] as the assistant node received it
    \* ---- appointment tools (src/appointment_tools.py) ----
    appointments,      \* the rows of appointments.csv
    apptCall,          \* the latest appointment tool call and its arguments
    apptResult,        \* the dict that call returned
    \* ---- two sessions calling book_service_appointment concurrently ----
    sessPc,            \* per session: "idle" | "loaded" | "done"
    sessCall,          \* per session: the book call it makes
    sessDf,            \* per session: appointments_df, the frame it loaded
    sessResult,        \* per session: the dict its call returned
    writeLog,          \* the sessions that wrote the file, in write order
    \* ---- CCP tools (src/core.py) ----
    vehicles,          \* customer_vehicles.csv: registration -> row
    warranties,        \* the rows of warranties.csv
    claims,            \* the rows of claims.csv
    now,               \* datetime.now(), in ticks since the purchase date
    ccpCall,           \* the latest CCP tool call and its arguments
    ccpResult,         \* the dict that call returned
    \* ---- the confirmation email of a booking, a purchase or a claim ----
    notice,            \* what the latest call's response says about its email
    \* ---- the logged-in user (src/main.py, src/core.py) ----
    logged_in,         \* st.session_state['logged_in']
    user_id_conf,      \* the id in user_id.conf, 0 when the file is absent
    user_id,           \* core.user_id, 0 while core is not imported
    shown,             \* the latest current-user tool call and whose records it used
    \* ---- update_tool_messages applied to one tool content ----
    toolContent,       \* message.content, by its identifier and name fields
    rewrites           \* how many times update_tool_messages has run on it

chatVars == <<chatPc, retry_count, prompt, chatResult, attempts,
              graphInvocations, turns>>
graphVars == <<node, messages, steps>>
asstVars == <<aPc, localMessages, handed, reprompted, reinvoked, stepRaised,
              invokedAfterRaise, entryMessages>>
apptVars == <<appointments, apptCall, apptResult>>
raceVars == <<sessPc, sessCall, sessDf, sessResult, writeLog>>
ccpVars == <<vehicles, warranties, claims, now, ccpCall, ccpResult>>
mailVars == <<notice>>
userVars == <<logged_in, user_id_conf, user_id, shown>>
rewriteVars == <<toolContent, rewrites>>
storeVars == <<apptVars, raceVars, ccpVars, mailVars, userVars, rewriteVars>>
vars == <<chatVars, graphVars, asstVars, storeVars>>

---------------------------------------------------------------------------
(* Bounds of the model *)
MaxTurns == 1
RecursionLimit == 3

(* Program constants *)
max_retries == 2
TokenLow == 5000
TokenHigh == 7000

---------------------------------------------------------------------------
(* Strings of the program *)
ClarifyText == "Can you clarify your request please!"
ApologyText == "I apologize for the inconvenience. I'm having trouble processing your request right now."
FallbackMarker == "Please help me with my request."
FallbackExcept == "Please help me with my previous request."
RePromptText == "Respond with a real output."
UserPrompt == "user prompt"
PlainReply == "reply"
MarkerReply == "Sorry, I am Having Trouble Processing that"

\* "having trouble processing" in clean_message.lower()
ContainsMarker(c) == c \in {ApologyText, MarkerReply}

---------------------------------------------------------------------------
(* Messages *)
Msg(type, content, meta, tokens, calls, call_id, id) ==
    [type |-> type, content |-> content, meta |-> meta, tokens |-> tokens,
     calls |-> calls, call_id |-> call_id, id |-> id]

HumanMessage(text, id) == Msg("human", text, FALSE, 0, <<>>, 0, id)
ToolMessage(content, call_id, id) == Msg("tool", content, FALSE, 0, <<>>, call_id, id)
\* the raw tuple ("user", "Respond with a real output.")
RePromptTuple == Msg("tuple", RePromptText, FALSE, 0, <<>>, 0, 0)
\* a fallback message whose text lacks the apology
ApologyMessageOtherText(id) == Msg("ai", "Something went wrong.", FALSE, 0, <<>>, 0, id)

\* AIMessage(content="I apologize ...") : no tool calls, no response_metadata
ApologyMessage(id) == Msg("ai", ApologyText, FALSE, 0, <<>>, 0, id)

Last(s) == s[Len(s)]
\* a truncation that returns the newest message first
LastNNewestFirst(s, n) ==
    LET k == IF Len(s) <= n THEN Len(s) ELSE n IN
    [i \in 1..k |-> s[Len(s) - i + 1]]

LastN(s, n) == IF Len(s) <= n THEN s ELSE SubSeq(s, Len(s) - n + 1, Len(s))
InSeq(x, s) == \E i \in 1..Len(s) : s[i] = x
FilterOut(s, drop) == SelectSeq(s, LAMBDA x : ~InSeq(x, drop))

---------------------------------------------------------------------------
(* Compaction of the message log *)

\* ('booking_id' in str(content)) or ('car_id' in str(content)); "ids" is a
\* tool payload carrying such fields, "norm" its normalised JSON list.
HasIdFields(content) == content \in {"ids", "norm"}

\* update_tool_messages: the regex extraction followed by json.dumps
update_tool_messages(m) ==
    IF m.content = "ids" THEN [m EXCEPT !.content = "norm"] ELSE m

\* message.content and message.response_metadata
IsFinalAI(m) == m.type = "ai" /\ m.content # "" /\ m.meta

RewriteIdTools(cleaned) ==
    [i \in 1..Len(cleaned) |->
        IF cleaned[i].type = "tool" /\ HasIdFields(cleaned[i].content)
        THEN update_tool_messages(cleaned[i])
        ELSE cleaned[i]]

CleanAcc(cleaned, middle, users, bots) ==
    [cleaned |-> cleaned, middle |-> middle, users |-> users, bots |-> bots]

\* an iteration that drops the middle steps at every assistant-final message
CleanStepAnyFinal(acc, m) ==
    IF m.type = "human" THEN
        CleanAcc(Append(acc.cleaned, m), acc.middle, acc.users + 1, acc.bots)
    ELSE IF m.type = "ai" THEN
        IF IsFinalAI(m) THEN
            CleanAcc(FilterOut(RewriteIdTools(Append(acc.cleaned, m)), acc.middle),
                     <<>>, acc.users, acc.bots + 1)
        ELSE
            CleanAcc(Append(acc.cleaned, m), Append(acc.middle, m), acc.users, acc.bots)
    ELSE IF m.type = "tool" THEN
        IF HasIdFields(m.content) THEN
            CleanAcc(Append(acc.cleaned, m), acc.middle, acc.users, acc.bots)
        ELSE
            CleanAcc(Append(acc.cleaned, m), Append(acc.middle, m), acc.users, acc.bots)
    ELSE acc

\* one iteration of clean_state's for loop
CleanStep(acc, m) ==
    IF m.type = "human" THEN
        CleanAcc(Append(acc.cleaned, m), acc.middle, acc.users + 1, acc.bots)
    ELSE IF m.type = "ai" THEN
        IF IsFinalAI(m) THEN
            IF acc.users = acc.bots + 1 THEN
                CleanAcc(FilterOut(RewriteIdTools(Append(acc.cleaned, m)), acc.middle),
                         <<>>, acc.users, acc.bots + 1)
            ELSE
                CleanAcc(Append(acc.cleaned, m), acc.middle, acc.users, acc.bots + 1)
        ELSE
            CleanAcc(Append(acc.cleaned, m), Append(acc.middle, m), acc.users, acc.bots)
    ELSE IF m.type = "tool" THEN
        IF HasIdFields(m.content) THEN
            CleanAcc(Append(acc.cleaned, m), acc.middle, acc.users, acc.bots)
        ELSE
            CleanAcc(Append(acc.cleaned, m), Append(acc.middle, m), acc.users, acc.bots)
    ELSE acc   \* neither HumanMessage, AIMessage nor ToolMessage: not copied

\* one iteration of clean_state2's for loop
CleanStep2(acc, m) ==
    IF m.type = "human" THEN
        CleanAcc(Append(acc.cleaned, m), acc.middle, acc.users + 1, acc.bots)
    ELSE IF m.type = "ai" THEN
        IF IsFinalAI(m) THEN
            IF acc.users = acc.bots + 1 THEN
                CleanAcc(FilterOut(Append(acc.cleaned, m), acc.middle),
                         <<>>, acc.users, acc.bots + 1)
            ELSE
                CleanAcc(Append(acc.cleaned, m), acc.middle, acc.users, acc.bots + 1)
        ELSE
            CleanAcc(Append(acc.cleaned, m), Append(acc.middle, m), acc.users, acc.bots)
    ELSE IF m.type = "tool" THEN
        CleanAcc(Append(acc.cleaned, m), Append(acc.middle, m), acc.users, acc.bots)
    ELSE acc

\* the for loop over state["messages"], from message i on; each pass takes
\* the value the pass before it left
RECURSIVE CleanFold(_, _, _)
CleanFold(msgs, i, acc) ==
    IF i > Len(msgs) THEN acc
    ELSE CleanFold(msgs, i + 1,
                   CHOOSE next \in {CleanStep(a, msgs[i]) : a \in {acc}} : TRUE)

RECURSIVE CleanFold2(_, _, _)
CleanFold2(msgs, i, acc) ==
    IF i > Len(msgs) THEN acc
    ELSE CleanFold2(msgs, i + 1,
                    CHOOSE next \in {CleanStep2(a, msgs[i]) : a \in {acc}} : TRUE)

clean_state(msgs) == CleanFold(msgs, 1, CleanAcc(<<>>, <<>>, 0, 0)).cleaned
\* a strict compaction that keeps identifier-bearing tool results
clean_state2_keeping_ids(msgs) == CleanFold(msgs, 1, CleanAcc(<<>>, <<>>, 0, 0)).cleaned

clean_state2(msgs) == CleanFold2(msgs, 1, CleanAcc(<<>>, <<>>, 0, 0)).cleaned

\* the token-budget truncation of Assistant.__call__
TokenTruncate(msgs) ==
    IF Len(msgs) >= 2 /\ msgs[Len(msgs) - 1].meta THEN
        LET tokens == msgs[Len(msgs) - 1].tokens IN
        IF tokens < TokenHigh /\ tokens > TokenLow THEN LastN(msgs, 3)
        ELSE IF tokens > TokenHigh THEN LastN(clean_state2(msgs), 4)
        ELSE msgs
    ELSE msgs

\* the head of the while loop: clean_state, then the truncation
AssistantCompact(msgs) == TokenTruncate(clean_state(msgs))

\* the identifiers of the tool messages clean_state(msgs) passed to
\* update_tool_messages
RewrittenIds(msgs) ==
    LET cleaned == clean_state(msgs) IN
    {cleaned[i].id : i \in {j \in 1..Len(cleaned) : /\ cleaned[j].type = "tool"
                                                     /\ cleaned[j].content = "norm"}}

\* update_tool_messages assigns message.content on the message object it is
\* given, and the messages of state["messages"] are the objects of the session
\* log: the log holds the rewritten content as well
MutatedInPlace(log, msgs) ==
    LET touched == RewrittenIds(msgs) IN
    [i \in 1..Len(log) |->
        IF log[i].id \in touched THEN update_tool_messages(log[i]) ELSE log[i]]

---------------------------------------------------------------------------
(* What the bound model may do at one invocation *)
ModelOutcome(kind, content, tokens, n) ==
    [kind |-> kind, content |-> content, tokens |-> tokens, n |-> n]

ModelOutcomes ==
    {ModelOutcome("raise", "", 0, 0),
     ModelOutcome("empty", "", 100, 0),
     ModelOutcome("text", PlainReply, 6000, 0),
     ModelOutcome("text", MarkerReply, 100, 0),
     ModelOutcome("calls", "", 8000, 1),
     ModelOutcome("calls", "", 100, 2)}

\* what a tool returns when it does not raise: a payload carrying
\* booking_id / car_id fields
ToolContents == {"ids"}

\* ids of the tool calls carried by the assistant message with identifier id
CallIds(id, n) == [k \in 1..n |-> 10 * id + k]

\* the AIMessage the model returned
ResultMessage(o, id) ==
    Msg("ai", o.content, TRUE, o.tokens, CallIds(id, o.n), 0, id)

\* not result.tool_calls and (not result.content or a block without text)
IsEmptyResult(o) == o.kind = "empty"

(* One pass of the body of Assistant.__call__'s while loop after the head, *)
(* given the compacted local log and what the model did: whether the loop  *)
(* breaks, the result it breaks with, and the local log it leaves.         *)
LoopOut(break, result, local) == [break |-> break, result |-> result, local |-> local]

\* the model is invoked again after it raised
OnModelRaiseRetry(localLog, id) == LoopOut(FALSE, ApologyMessage(id), localLog)

\* except Exception: result = AIMessage(apology); break
OnModelRaise(localLog, id) == LoopOut(TRUE, ApologyMessage(id), localLog)

\* state["messages"].append(("user", "Respond with a real output."))
OnEmptyResult(localLog, id) ==
    LoopOut(FALSE, ApologyMessage(id), Append(localLog, RePromptTuple))

\* the else branch: drop the re-prompt tuples, break
OnRealResult(localLog, o, id) ==
    LoopOut(TRUE, ResultMessage(o, id),
            SelectSeq(localLog, LAMBDA m : m # RePromptTuple))

AssistantAfterInvoke(localLog, o, id) ==
    IF o.kind = "raise" THEN OnModelRaise(localLog, id)
    ELSE IF IsEmptyResult(o) THEN OnEmptyResult(localLog, id)
    ELSE OnRealResult(localLog, o, id)

\* a condition that ends the invocation whatever the message carries
RouteAfterAssistantAlwaysEnd(result, nsteps) == "end"

\* tools_condition, with the graph's superstep limit
RouteAfterAssistant(result, nsteps) ==
    IF result.calls = <<>> THEN "end"
    ELSE IF nsteps >= RecursionLimit THEN "raised"
    ELSE "tools"


\* ToolNode(tools).with_fallbacks([handle_tool_error]): one ToolMessage per
\* tool call of the last message, tagged with the call's id
ToolResults(last, contents, base) ==
    [k \in 1..Len(last.calls) |-> ToolMessage(contents[k], last.calls[k], base + k)]

\* a fallback that answers the first tool call only
handle_tool_error_first_call(last, base) ==
    [k \in 1..1 |-> ToolMessage("err", last.calls[k], base + k)]

handle_tool_error(last, base) ==
    [k \in 1..Len(last.calls) |-> ToolMessage("err", last.calls[k], base + k)]

\* builder.add_edge("tools", "assistant"), with the graph's superstep limit
RouteAfterTools(nsteps) == IF nsteps >= RecursionLimit THEN "raised" ELSE "assistant"

---------------------------------------------------------------------------
(* chatloop: what the body of the while loop does with the outcome of one  *)
(* graph invocation: where control goes, the counter and the prompt.       *)
ChatOut(pc, rc, p, result) == [pc |-> pc, retry_count |-> rc, prompt |-> p, result |-> result]

\* while retry_count < max_retries
WhileTest(rc) == rc < max_retries

\* a marker reply that is not counted against the budget
OnMarkerReplyNoCount(rc, p) == ChatOut("loop", rc, FallbackMarker, "")

\* the "having trouble processing" branch: count, replace the prompt, continue
OnMarkerReply(rc, p) == ChatOut("loop", rc + 1, FallbackMarker, "")

\* return str(clean_message)
OnPlainReply(rc, p, content) == ChatOut("returned", rc, p, content)

\* an exception that is not counted against the budget
OnGraphExceptionNoCount(rc, p) == ChatOut("loop", rc, FallbackExcept, "")

\* except Exception: count, then replace the prompt and continue, or break
\* to the final return
OnGraphException(rc, p) ==
    IF rc + 1 < max_retries
    THEN ChatOut("loop", rc + 1, FallbackExcept, "")
    ELSE ChatOut("returned", rc + 1, p, ClarifyText)

ChatloopAfterReply(rc, p, content) ==
    IF ContainsMarker(content) THEN OnMarkerReply(rc, p) ELSE OnPlainReply(rc, p, content)

---------------------------------------------------------------------------
(* Actions of the conversation *)

EnterAssistant(log) ==
    /\ aPc' = "top"
    /\ localMessages' = log
    /\ reprompted' = FALSE
    /\ reinvoked' = FALSE
    /\ stepRaised' = FALSE
    /\ invokedAfterRaise' = FALSE
    /\ entryMessages' = log
    /\ handed' = <<>>

\* chatloop(prompt) is called
ChatStart ==
    /\ chatPc \in {"idle", "returned"}
    /\ turns < MaxTurns
    /\ chatPc' = "loop"
    /\ retry_count' = 0
    /\ prompt' = UserPrompt
    /\ chatResult' = ""
    /\ attempts' = <<>>
    /\ graphInvocations' = 0
    /\ turns' = turns + 1
    /\ EnterAssistant(<<>>)
    /\ UNCHANGED graphVars
    /\ UNCHANGED storeVars

\* part_1_graph.invoke({"messages": ("user", prompt)}, config)
GraphInvoke ==
    /\ chatPc = "loop"
    /\ WhileTest(retry_count)
    /\ chatPc' = "invoking"
    /\ graphInvocations' = graphInvocations + 1
    /\ messages' = Append(messages, HumanMessage(prompt, Len(messages) + 1))
    /\ node' = "assistant"
    /\ steps' = 0
    /\ EnterAssistant(messages')
    /\ UNCHANGED <<retry_count, prompt, chatResult, attempts, turns>>
    /\ UNCHANGED storeVars

\* the head of Assistant.__call__'s loop
AssistantPrepare ==
    /\ node = "assistant"
    /\ aPc = "top"
    /\ localMessages' = AssistantCompact(localMessages)
    /\ messages' = MutatedInPlace(messages, localMessages)
    /\ aPc' = "invoke"
    /\ UNCHANGED <<chatVars, node, steps, handed, reprompted, reinvoked, stepRaised,
                   invokedAfterRaise, entryMessages>>
    /\ UNCHANGED storeVars

\* self.runnable.invoke(state) and the rest of the loop body; on break the
\* node returns {"messages": result} and the graph routes
ModelInvokeFrom(outcomes) ==
    /\ node = "assistant"
    /\ aPc = "invoke"
    /\ \E o \in outcomes :
        LET out == AssistantAfterInvoke(localMessages, o, Len(messages) + 1) IN
        /\ handed' = localMessages
        /\ reinvoked' = reprompted
        /\ invokedAfterRaise' = (invokedAfterRaise \/ stepRaised)
        /\ stepRaised' = (stepRaised \/ o.kind = "raise")
        /\ reprompted' = (reprompted \/ IsEmptyResult(o))
        /\ localMessages' = out.local
        /\ aPc' = "top"
        /\ UNCHANGED entryMessages
        /\ IF out.break
           THEN /\ messages' = Append(messages, out.result)
                /\ steps' = steps + 1
                /\ node' = RouteAfterAssistant(out.result, steps + 1)
           ELSE UNCHANGED graphVars
    /\ UNCHANGED chatVars
    /\ UNCHANGED storeVars

ModelInvoke == ModelInvokeFrom(ModelOutcomes)

\* the tools node
ToolsStep ==
    /\ node = "tools"
    /\ LET last == Last(messages) IN
       \E results \in {handle_tool_error(last, Len(messages))}
                      \cup {ToolResults(last, [k \in 1..Len(last.calls) |-> c], Len(messages)) :
                                c \in ToolContents} :
            /\ messages' = messages \o results
            /\ steps' = steps + 1
            /\ node' = RouteAfterTools(steps + 1)
            /\ EnterAssistant(messages')
    /\ UNCHANGED chatVars
    /\ UNCHANGED storeVars

\* the graph invocation returned: msg = all_msg.get('messages')[-1]
ChatloopReply ==
    /\ chatPc = "invoking"
    /\ node = "end"
    /\ LET content == Last(messages).content
           out == ChatloopAfterReply(retry_count, prompt, content) IN
        /\ chatPc' = out.pc
        /\ retry_count' = out.retry_count
        /\ prompt' = out.prompt
        /\ chatResult' = out.result
        /\ attempts' = Append(attempts, IF ContainsMarker(content) THEN "marker" ELSE "ok")
    /\ node' = "none"
    /\ UNCHANGED <<graphInvocations, turns, messages, steps, asstVars>>
    /\ UNCHANGED storeVars

\* the graph invocation raised
ChatloopExcept ==
    /\ chatPc = "invoking"
    /\ node = "raised"
    /\ LET out == OnGraphException(retry_count, prompt) IN
        /\ chatPc' = out.pc
        /\ retry_count' = out.retry_count
        /\ prompt' = out.prompt
        /\ chatResult' = out.result
        /\ attempts' = Append(attempts, "raise")
    /\ node' = "none"
    /\ UNCHANGED <<graphInvocations, turns, messages, steps, asstVars>>
    /\ UNCHANGED storeVars

\* the while test fails: return "Can you clarify your request please!"
ChatloopExit ==
    /\ chatPc = "loop"
    /\ ~WhileTest(retry_count)
    /\ chatPc' = "returned"
    /\ chatResult' = ClarifyText
    /\ UNCHANGED <<retry_count, prompt, attempts, graphInvocations, turns,
                   graphVars, asstVars>>
    /\ UNCHANGED storeVars

(***************************************************************************)
(* The confirmation email.  book_service_appointment, purchase_ccp_package *)
(* and file_ccp_claim build their response after the record is saved and   *)
(* then call send_email_notification; the response is what the customer is *)
(* told about the email.                                                   *)
(***************************************************************************)
\* what happens to the mail: the SMTP exchange completes, it raises inside
\* send_email_notification, or the call of the tool object itself raises
EmailOutcomes == {"delivered", "smtp_failed", "call_raised"}

\* customer_email: the address of the profile, "" when there is none
CustomerEmails == {"", "asha@example.com"}

\* the import of notification_tools at the head of appointment_tools.py
EMAIL_AVAILABLE == TRUE

ConfirmationSentLine == "Confirmation email sent to your registered email"
EmailSentTo == "Confirmation email sent to {customer_email}"
BookCouldNotBeSent == "Appointment confirmed, but email notification could not be sent"
BookEmailFailed == "Appointment confirmed, but email notification failed"
ClaimCouldNotBeSent == "Claim filed successfully, but email notification could not be sent"
ClaimEmailFailed == "Claim filed successfully, but email notification failed"
NoAddressInProfile == "Email not sent (no email address found in your profile)"
DevModePrepared == "[DEV MODE] Email notification prepared for {recipient_email}"
EmailSentSuccessfully == "Email sent successfully to {recipient_email}"
PurchaseEmailFailed == "Purchase confirmed but email failed: {email_error}"
NoEmailProvided == "Email not sent (no email provided)"

\* the dict send_email_notification returns: the mail went out, or the
\* except branch answered for an SMTP exchange that raised
send_email_notification(smtp) ==
    IF smtp = "delivered"
    THEN [success |-> TRUE, message |-> EmailSentSuccessfully,
          delivery_status |-> "Delivered"]
    ELSE [success |-> TRUE, message |-> DevModePrepared,
          delivery_status |-> "Mock delivery (configure SMTP for real delivery)"]

\* the email fields of a response: the fixed line of instructions or
\* next_steps, email_confirmation or email_status, email_sent, and whether
\* the mail reached the customer
Notice(op, delivered, line, advisory, email_sent) ==
    [op |-> op, delivered |-> delivered, line |-> line, advisory |-> advisory,
     email_sent |-> email_sent]

NoNotice == Notice("none", FALSE, "", "", FALSE)

\* response["instructions"][0] and response["email_confirmation"] of
\* book_service_appointment
BookNotice(customer_email, outcome) ==
    IF EMAIL_AVAILABLE /\ customer_email # ""
    THEN IF outcome = "call_raised"
         THEN Notice("book", FALSE, ConfirmationSentLine, BookEmailFailed, FALSE)
         ELSE LET email_result == send_email_notification(outcome) IN
              Notice("book", outcome = "delivered", ConfirmationSentLine,
                     IF email_result.success THEN EmailSentTo
                     ELSE BookCouldNotBeSent,
                     FALSE)
    ELSE Notice("book", FALSE, ConfirmationSentLine, NoAddressInProfile, FALSE)

\* response["next_steps"][1] and response["email_confirmation"] of
\* file_ccp_claim
ClaimNotice(customer_email, outcome) ==
    IF customer_email # ""
    THEN IF outcome = "call_raised"
         THEN Notice("file_claim", FALSE, ConfirmationSentLine, ClaimEmailFailed,
                     FALSE)
         ELSE LET email_result == send_email_notification(outcome) IN
              Notice("file_claim", outcome = "delivered", ConfirmationSentLine,
                     IF email_result.success THEN EmailSentTo
                     ELSE ClaimCouldNotBeSent,
                     FALSE)
    ELSE Notice("file_claim", FALSE, ConfirmationSentLine, NoAddressInProfile,
                FALSE)

\* response["email_sent"] and response["email_status"] of
\* purchase_ccp_package
PurchaseNotice(customer_email, outcome) ==
    IF customer_email # ""
    THEN IF outcome = "call_raised"
         THEN Notice("purchase", FALSE, "", PurchaseEmailFailed, FALSE)
         ELSE LET email_result == send_email_notification(outcome) IN
              Notice("purchase", outcome = "delivered", "", email_result.message,
                     email_result.success)
    ELSE Notice("purchase", FALSE, "", NoEmailProvided, FALSE)

\* the email fields a successful call may return, over the addresses of the
\* profile and the outcomes of the mail
BookNotices ==
    {BookNotice(e, o) : e \in CustomerEmails, o \in EmailOutcomes}
ClaimNotices ==
    {ClaimNotice(e, o) : e \in CustomerEmails, o \in EmailOutcomes}
PurchaseNotices ==
    {PurchaseNotice(e, o) : e \in CustomerEmails, o \in EmailOutcomes}

InitMailIdle == notice = NoNotice

\* no current-user tool has been called
NoShown == [tool |-> "none", users |-> {}]

\* a tool content by the fields update_tool_messages looks for: whether a
\* "booking_id" field is present, whether a "name" field is present, the
\* characters written between the quotes of the name, and whether the
\* content holds anything else
Content(has_id, has_name, name, other) ==
    [has_booking_id |-> has_id, has_name |-> has_name, name |-> name,
     other |-> other]

NoContent == Content(FALSE, FALSE, <<>>, FALSE)

InitRewriteIdle ==
    /\ toolContent = NoContent
    /\ rewrites = 0

InitUserIdle ==
    /\ logged_in = FALSE
    /\ user_id_conf = 0
    /\ user_id = 0
    /\ shown = NoShown

\* a conversation of this model runs no appointment tool: the store is idle
NoCall ==
    [op |-> "none", appointment_id |-> 0, vehicle_registration |-> "",
     service_center_name |-> "", date |-> "", time |-> ""]

NoResult == [success |-> FALSE, error |-> "", appointment_id |-> 0]

Sessions == {1, 2}

InitRaceIdle ==
    /\ sessPc = [s \in Sessions |-> "idle"]
    /\ sessCall = [s \in Sessions |-> NoCall]
    /\ sessDf = [s \in Sessions |-> <<>>]
    /\ sessResult = [s \in Sessions |-> NoResult]
    /\ writeLog = <<>>

NoCcpCall ==
    [op |-> "none", vehicle_registration |-> "", package_type |-> "",
     warranty_id |-> 0, claim_type |-> ""]

NoCcpResult == [success |-> FALSE, error |-> "", eligible |-> FALSE, reason |-> "", id |-> 0]

InitCcpIdle ==
    /\ vehicles = <<>>
    /\ warranties = <<>>
    /\ claims = <<>>
    /\ now = 0
    /\ ccpCall = NoCcpCall
    /\ ccpResult = NoCcpResult

InitStoreIdle ==
    /\ appointments = <<>>
    /\ apptCall = NoCall
    /\ apptResult = NoResult
    /\ InitRaceIdle
    /\ InitCcpIdle
    /\ InitMailIdle
    /\ InitUserIdle
    /\ InitRewriteIdle

InitChatVars ==
    /\ chatPc = "idle"
    /\ retry_count = 0
    /\ prompt = ""
    /\ chatResult = ""
    /\ attempts = <<>>
    /\ graphInvocations = 0
    /\ turns = 0
    /\ node = "none"
    /\ messages = <<>>
    /\ steps = 0
    /\ aPc = "top"
    /\ localMessages = <<>>
    /\ handed = <<>>
    /\ reprompted = FALSE
    /\ reinvoked = FALSE
    /\ stepRaised = FALSE
    /\ invokedAfterRaise = FALSE
    /\ entryMessages = <<>>

InitChat == InitChatVars /\ InitStoreIdle

NextChat ==
    \/ ChatStart
    \/ GraphInvoke
    \/ AssistantPrepare
    \/ ModelInvoke
    \/ ToolsStep
    \/ ChatloopReply
    \/ ChatloopExcept
    \/ ChatloopExit

SpecChat == InitChat /\ [][NextChat]_vars

(* The same conversation with a model that raises, returns an empty       *)
(* result, replies or asks for one tool, run by an interpreter that keeps  *)
(* executing the turn: a step that can be taken is eventually taken.       *)
LiveOutcomes ==
    {o \in ModelOutcomes : o.content # MarkerReply /\ o.n <= 1}

NextChatLive ==
    \/ ChatStart
    \/ GraphInvoke
    \/ AssistantPrepare
    \/ ModelInvokeFrom(LiveOutcomes)
    \/ ToolsStep
    \/ ChatloopReply
    \/ ChatloopExcept
    \/ ChatloopExit

FairSpecChat == InitChat /\ [][NextChatLive]_vars /\ WF_vars(NextChatLive)

---------------------------------------------------------------------------
(* Properties of the Session/Turn Driver and the Assistant step *)

Running == chatPc \in {"loop", "invoking"}
Returned == chatPc = "returned"
FailedAttempts == SelectSeq(attempts, LAMBDA a : a # "ok")

(* C1: when every graph invocation of a turn fails (it ends in a reply     *)
(* carrying the apology marker, or the graph raises), chatloop returns     *)
(* exactly "Can you clarify your request please!", after exactly 2 graph   *)
(* invocations.                                                            *)
C1_AllFailReturnsClarify ==
    (Returned /\ FailedAttempts = attempts)
        => /\ chatResult = ClarifyText
           /\ graphInvocations = 2
           /\ Len(attempts) = 2

\* the model raised in both invocations of a turn and chatloop returned
C1_Witness ==
    /\ Returned
    /\ attempts = <<"marker", "marker">>
    /\ stepRaised
    /\ Last(messages) = ApologyMessage(Len(messages))
    /\ chatResult = ClarifyText

EmptyResultNow ==
    /\ node = "assistant"
    /\ aPc = "top"
    /\ localMessages # <<>>
    /\ Last(localMessages) = RePromptTuple

C4_RaiseReturnsApology ==
    /\ [](stepRaised =>
            /\ ~invokedAfterRaise
            /\ node \in {"end", "none"}
            /\ Last(messages).type = "ai"
            /\ Last(messages).content = ApologyText
            /\ Last(messages).calls = <<>>)
    /\ [][(stepRaised' /\ ~stepRaised)
            => /\ Len(messages') = Len(messages) + 1
               /\ SubSeq(messages', 1, Len(messages)) = messages]_vars

\* the model raised in the step that followed a tools round
C4_Witness ==
    /\ stepRaised
    /\ node = "end"
    /\ Len(messages) >= 3
    /\ messages[Len(messages) - 1].type = "tool"

(* C5 as stated: after an empty tool-call-free result the step appends     *)
(* "Respond with a real output." and invokes the model again before it     *)
(* returns, and the log handed to that invocation contains the synthetic   *)
(* instruction.                                                            *)
C5_RePromptIsHanded ==
    /\ (reprompted /\ node \in {"end", "tools", "raised"}) => reinvoked
    /\ reinvoked => InSeq(RePromptTuple, handed)

(***************************************************************************)
(* The appointment tools (src/appointment_tools.py).  Every tool call      *)
(* loads the whole appointments table, computes on the loaded frame and,   *)
(* when it changes something, writes the whole frame back.  Dates and      *)
(* times are the strings the caller passed, in the documented formats      *)
(* (dd/mm/YYYY, "10:00 AM"), which the CSV file returns as written.        *)
(***************************************************************************)
MaxAppointments == 2

\* customer_vehicles.csv, and the registrations a caller may pass
VehicleRegistrations == {"MH01AB1234"}
RequestedRegistrations == VehicleRegistrations \cup {"XX00XX0000"}

\* service_centers.csv: the center_name column in row order
center_names == <<"Center A", "Center B">>
CenterQueries == {"center a", "Center B", "Center", "Center Z"}

Dates == {"15/03/2025", "16/03/2025"}

\* the clock counts ticks from 01/01/2024 00:00, TicksPerDay to a day
TicksPerDay == 2

\* datetime.strptime(date, '%d/%m/%Y'), in days since 01/01/2024: the 366 days
\* of 2024, January and February 2025, and the days of March before the date
strptime(date) ==
    CASE date = "15/03/2025" -> 366 + 31 + 28 + 14
      [] date = "16/03/2025" -> 366 + 31 + 28 + 15

\* datetime.now().date()
Today(t) == t \div TicksPerDay

\* datetime.now() when the appointment tools run: 16/03/2025 at 12:00, so
\* that one of the Dates is the current date and the other is past
ApptInstants == {strptime("16/03/2025") * TicksPerDay + 1}
Times == {"10:00 AM", "11:00 AM"}
ApptIds == 1..(MaxAppointments + 1)

\* str.contains(pattern, case=False): a case-insensitive substring test
Lower(s) ==
    CASE s = "Center A" -> "center a"
      [] s = "Center B" -> "center b"
      [] s = "Center Z" -> "center z"
      [] s = "Center" -> "center"
      [] OTHER -> s

IsSubstring(p, s) ==
    \/ p = s
    \/ p = "center" /\ s \in {"center a", "center b", "center z"}

str_contains(name, pattern) == IsSubstring(Lower(pattern), Lower(name))

\* service_centers_df[center_name.str.contains(service_center_name)]
MatchingCenters(service_center_name) ==
    SelectSeq(center_names, LAMBDA n : str_contains(n, service_center_name))

Row(id, reg, center, date, time, status) ==
    [appointment_id |-> id, vehicle_registration |-> reg,
     service_center |-> center, appointment_date |-> date,
     appointment_time |-> time, status |-> status]

ActiveStatuses == {"confirmed", "pending"}

\* load_data(APPOINTMENTS_FILE) and save_data(df, APPOINTMENTS_FILE): the
\* frame is the file's rows; the write replaces the file as a whole
load_data(file) == file

save_data_merging(df, file) ==
    file \o SelectSeq(df, LAMBDA r : ~InSeq(r, file))

save_data(df, file) == df

\* the error texts, without the interpolated arguments
VehicleNotFound == "Vehicle not found"
CenterNotFound == "Service center not found"
SlotAlreadyBooked == "Time slot is already booked"
ApptNotFound == "Appointment ID not found"
PastDates == "Cannot book appointments for past dates"
AlreadyCancelled == "Appointment is already cancelled"
CannotCancelCompleted == "Cannot cancel a completed appointment"
CannotRescheduleCancelled == "Cannot reschedule a cancelled appointment"
CannotRescheduleCompleted == "Cannot reschedule a completed appointment"

ContainsAlreadyBooked(text) == text = SlotAlreadyBooked

ErrorResult(text) == [success |-> FALSE, error |-> text, appointment_id |-> 0]
SuccessResult(id) == [success |-> TRUE, error |-> "", appointment_id |-> id]

\* what a tool call leaves: its return value, its frame, whether it saved
ToolOut(result, df, saved) == [result |-> result, df |-> df, saved |-> saved]

\* existing_booking of book_service_appointment is not empty
BookSlotTakenConfirmedOnly(df, center, date, time) ==
    \E i \in 1..Len(df) :
        /\ df[i].service_center = center
        /\ df[i].appointment_date = date
        /\ df[i].appointment_time = time
        /\ df[i].status = "confirmed"

BookSlotTaken(df, center, date, time) ==
    \E i \in 1..Len(df) :
        /\ df[i].service_center = center
        /\ df[i].appointment_date = date
        /\ df[i].appointment_time = time
        /\ df[i].status \in ActiveStatuses

\* appointments_df['appointment_id'].max() + 1 if not appointments_df.empty else 1
MaxAppointmentId(df) ==
    CHOOSE m \in {df[i].appointment_id : i \in 1..Len(df)} :
        \A j \in 1..Len(df) : df[j].appointment_id <= m

\* a variant that numbers the new row by the size of the table
NewAppointmentIdByCount(df) == Len(df) + 1

NewAppointmentId(df) == IF Len(df) = 0 THEN 1 ELSE MaxAppointmentId(df) + 1

book_service_appointment(df, vehicle_registration, service_center_name, appointment_date, appointment_time) ==
    IF vehicle_registration \notin VehicleRegistrations
    THEN ToolOut(ErrorResult(VehicleNotFound), df, FALSE)
    ELSE IF Len(MatchingCenters(service_center_name)) = 0
    THEN ToolOut(ErrorResult(CenterNotFound), df, FALSE)
    ELSE LET center == Head(MatchingCenters(service_center_name)) IN
         IF BookSlotTaken(df, center, appointment_date, appointment_time)
         THEN ToolOut(ErrorResult(SlotAlreadyBooked), df, FALSE)
         ELSE LET id == NewAppointmentId(df) IN
              ToolOut(SuccessResult(id),
                      Append(df, Row(id, vehicle_registration, center,
                                     appointment_date, appointment_time,
                                     "confirmed")),
                      TRUE)

\* check_service_center_availability: the only appointment tool that
\* compares the date with datetime.now(); it writes nothing
check_service_center_availability(df, t, service_center_name, preferred_date) ==
    IF Len(MatchingCenters(service_center_name)) = 0
    THEN ToolOut(ErrorResult(CenterNotFound), df, FALSE)
    ELSE IF strptime(preferred_date) < Today(t)
    THEN ToolOut(ErrorResult(PastDates), df, FALSE)
    ELSE ToolOut(SuccessResult(0), df, FALSE)

\* appointment_id in appointments_df['appointment_id'].values, and
\* appointments_df[appointments_df['appointment_id'] == appointment_id].iloc[0]
HasAppointment(df, appointment_id) ==
    \E i \in 1..Len(df) : df[i].appointment_id = appointment_id

FirstWithId(df, appointment_id) ==
    df[CHOOSE i \in 1..Len(df) :
          /\ df[i].appointment_id = appointment_id
          /\ \A j \in 1..(i - 1) : df[j].appointment_id # appointment_id]

\* appointments_df.loc[appointments_df['appointment_id'] == appointment_id, ..] = ..
SetStatus(df, appointment_id, status) ==
    [i \in 1..Len(df) |->
        IF df[i].appointment_id = appointment_id
        THEN [df[i] EXCEPT !.status = status]
        ELSE df[i]]

SetDateTime(df, appointment_id, date, time) ==
    [i \in 1..Len(df) |->
        IF df[i].appointment_id = appointment_id
        THEN [df[i] EXCEPT !.appointment_date = date, !.appointment_time = time]
        ELSE df[i]]

cancel_appointment(df, appointment_id) ==
    IF ~HasAppointment(df, appointment_id)
    THEN ToolOut(ErrorResult(ApptNotFound), df, FALSE)
    ELSE LET appointment == FirstWithId(df, appointment_id) IN
         IF appointment.status = "cancelled"
         THEN ToolOut(ErrorResult(AlreadyCancelled), df, FALSE)
         ELSE IF appointment.status = "completed"
         THEN ToolOut(ErrorResult(CannotCancelCompleted), df, FALSE)
         ELSE ToolOut(SuccessResult(appointment_id),
                      SetStatus(df, appointment_id, "cancelled"), TRUE)

\* existing_booking of reschedule_appointment is not empty
RescheduleSlotTakenConfirmedOnly(df, service_center, appointment_id, new_date, new_time) ==
    \E i \in 1..Len(df) :
        /\ df[i].service_center = service_center
        /\ df[i].appointment_date = new_date
        /\ df[i].appointment_time = new_time
        /\ df[i].appointment_id # appointment_id
        /\ df[i].status = "confirmed"

RescheduleSlotTaken(df, service_center, appointment_id, new_date, new_time) ==
    \E i \in 1..Len(df) :
        /\ df[i].service_center = service_center
        /\ df[i].appointment_date = new_date
        /\ df[i].appointment_time = new_time
        /\ df[i].appointment_id # appointment_id
        /\ df[i].status \in ActiveStatuses

\* a reschedule that does not look at the status of the appointment
reschedule_appointment_any_status(df, appointment_id, new_date, new_time) ==
    IF ~HasAppointment(df, appointment_id)
    THEN ToolOut(ErrorResult(ApptNotFound), df, FALSE)
    ELSE LET appointment == FirstWithId(df, appointment_id) IN
         IF RescheduleSlotTaken(df, appointment.service_center,
                                appointment_id, new_date, new_time)
         THEN ToolOut(ErrorResult(SlotAlreadyBooked), df, FALSE)
         ELSE ToolOut(SuccessResult(appointment_id),
                      SetDateTime(df, appointment_id, new_date, new_time), TRUE)

reschedule_appointment(df, appointment_id, new_date, new_time) ==
    IF ~HasAppointment(df, appointment_id)
    THEN ToolOut(ErrorResult(ApptNotFound), df, FALSE)
    ELSE LET appointment == FirstWithId(df, appointment_id) IN
         IF appointment.status = "cancelled"
         THEN ToolOut(ErrorResult(CannotRescheduleCancelled), df, FALSE)
         ELSE IF appointment.status = "completed"
         THEN ToolOut(ErrorResult(CannotRescheduleCompleted), df, FALSE)
         ELSE IF RescheduleSlotTaken(df, appointment.service_center,
                                     appointment_id, new_date, new_time)
         THEN ToolOut(ErrorResult(SlotAlreadyBooked), df, FALSE)
         ELSE ToolOut(SuccessResult(appointment_id),
                      SetDateTime(df, appointment_id, new_date, new_time), TRUE)

\* ---- the tools called one after another ----
BookCall(reg, name, date, time) ==
    [op |-> "book", appointment_id |-> 0, vehicle_registration |-> reg,
     service_center_name |-> name, date |-> date, time |-> time]

CancelCall(id) ==
    [op |-> "cancel", appointment_id |-> id, vehicle_registration |-> "",
     service_center_name |-> "", date |-> "", time |-> ""]

AvailabilityCall(name, date) ==
    [op |-> "availability", appointment_id |-> 0, vehicle_registration |-> "",
     service_center_name |-> name, date |-> date, time |-> ""]

RescheduleCall(id, date, time) ==
    [op |-> "reschedule", appointment_id |-> id, vehicle_registration |-> "",
     service_center_name |-> "", date |-> date, time |-> time]

\* the call returns out.result; the file is rewritten when the call saved
Returns(out) ==
    /\ apptResult' = out.result
    /\ appointments' = IF out.saved THEN save_data(out.df, appointments)
                       ELSE appointments
    /\ UNCHANGED <<chatVars, graphVars, asstVars, raceVars, ccpVars, userVars, rewriteVars>>

Book ==
    \E reg \in RequestedRegistrations, name \in CenterQueries,
       date \in Dates, time \in Times :
        LET out == book_service_appointment(load_data(appointments), reg, name,
                                            date, time) IN
        /\ out.saved => Len(appointments) < MaxAppointments
        /\ apptCall' = BookCall(reg, name, date, time)
        /\ notice' \in IF out.result.success THEN BookNotices ELSE {NoNotice}
        /\ Returns(out)

Cancel ==
    \E id \in ApptIds :
        /\ apptCall' = CancelCall(id)
        /\ notice' = NoNotice
        /\ Returns(cancel_appointment(load_data(appointments), id))

Reschedule ==
    \E id \in ApptIds, date \in Dates, time \in Times :
        /\ apptCall' = RescheduleCall(id, date, time)
        /\ notice' = NoNotice
        /\ Returns(reschedule_appointment(load_data(appointments), id, date, time))

CheckAvailability ==
    \E name \in CenterQueries, date \in Dates :
        /\ apptCall' = AvailabilityCall(name, date)
        /\ notice' = NoNotice
        /\ Returns(check_service_center_availability(load_data(appointments), now,
                                                     name, date))

\* appointments tables without a conflict that a session may start from
InitTables ==
    { <<>>,
      <<Row(1, "MH01AB1234", "Center A", "15/03/2025", "10:00 AM", "pending")>>,
      <<Row(2, "MH01AB1234", "Center B", "16/03/2025", "11:00 AM", "completed")>> }

InitAppt ==
    /\ InitChatVars
    /\ appointments \in InitTables
    /\ apptCall = NoCall
    /\ apptResult = NoResult
    /\ InitRaceIdle
    /\ vehicles = <<>>
    /\ warranties = <<>>
    /\ claims = <<>>
    /\ now \in ApptInstants
    /\ ccpCall = NoCcpCall
    /\ ccpResult = NoCcpResult
    /\ InitMailIdle
    /\ InitUserIdle
    /\ InitRewriteIdle

NextAppt ==
    \/ Book
    \/ Cancel
    \/ Reschedule
    \/ CheckAvailability

SpecAppt == InitAppt /\ [][NextAppt]_vars

\* ---- properties of the appointment tools ----
Active(r) == r.status \in ActiveStatuses

SameSlot(r1, r2) ==
    /\ r1.service_center = r2.service_center
    /\ r1.appointment_date = r2.appointment_date
    /\ r1.appointment_time = r2.appointment_time

NoConflict(df) ==
    \A i, j \in 1..Len(df) :
        (i # j /\ Active(df[i]) /\ Active(df[j])) => ~SameSlot(df[i], df[j])

\* C6: under sequential book / reschedule / cancel calls from a table without
\* a conflict, no two appointments with status confirmed or pending share
\* the same (service_center, appointment_date, appointment_time).
C6_SlotUniqueness == NoConflict(appointments)

\* two active appointments at one center, the latest call a successful
\* reschedule
C6_Witness ==
    /\ apptCall.op = "reschedule"
    /\ apptResult.success
    /\ \E i, j \in 1..Len(appointments) :
        /\ i # j
        /\ Active(appointments[i]) /\ Active(appointments[j])
        /\ appointments[i].service_center = appointments[j].service_center

\* the slot a book request names is occupied in table df
RequestedSlotOccupied(df, call) ==
    /\ call.op = "book"
    /\ Len(MatchingCenters(call.service_center_name)) > 0
    /\ \E i \in 1..Len(df) :
        /\ Active(df[i])
        /\ df[i].service_center = Head(MatchingCenters(call.service_center_name))
        /\ df[i].appointment_date = call.date
        /\ df[i].appointment_time = call.time

RejectedUnchanged ==
    /\ ~apptResult'.success
    /\ apptResult'.error # ""
    /\ appointments' = appointments

\* C7 as stated: every book request for an occupied slot returns an error
\* containing "already booked" and leaves the table unchanged.
C7_OccupiedAlwaysAlreadyBooked ==
    [][RequestedSlotOccupied(appointments, apptCall')
         => (RejectedUnchanged /\ ContainsAlreadyBooked(apptResult'.error))]_vars

\* C7 amended: a book request for an occupied slot returns an error and
\* leaves the table unchanged; the error contains "already booked" when the
\* request's vehicle registration is in the vehicles table.
C7_OccupiedRejected ==
    [][RequestedSlotOccupied(appointments, apptCall')
         => /\ RejectedUnchanged
            /\ (apptCall'.vehicle_registration \in VehicleRegistrations
                  => ContainsAlreadyBooked(apptResult'.error))]_vars

C7_Witness ==
    /\ apptCall.op = "book"
    /\ apptCall.vehicle_registration \in VehicleRegistrations
    /\ RequestedSlotOccupied(appointments, apptCall)
    /\ ContainsAlreadyBooked(apptResult.error)

(***************************************************************************)
(* Two sessions of the agent run book_service_appointment at the same      *)
(* time.  There is no lock around the file: a call reads the table         *)
(* (load_data), later checks the slot and the identifier on the frame it   *)
(* read, and writes that frame back (save_data).  The two steps of one     *)
(* call are separate actions, so the steps of the other call may fall      *)
(* between them.                                                           *)
(***************************************************************************)
\* initialize_appointments_file(); appointments_df = load_data(APPOINTMENTS_FILE)
SessionLoad(s) ==
    /\ sessPc[s] = "idle"
    /\ \E reg \in RequestedRegistrations, name \in CenterQueries,
          date \in Dates, time \in Times :
        sessCall' = [sessCall EXCEPT ![s] = BookCall(reg, name, date, time)]
    /\ sessDf' = [sessDf EXCEPT ![s] = load_data(appointments)]
    /\ sessPc' = [sessPc EXCEPT ![s] = "loaded"]
    /\ UNCHANGED <<chatVars, graphVars, asstVars, apptVars, ccpVars, mailVars,
                   userVars, rewriteVars, sessResult, writeLog>>

\* the checks, the new row and save_data(appointments_df, APPOINTMENTS_FILE)
SessionFinish(s) ==
    /\ sessPc[s] = "loaded"
    /\ LET c == sessCall[s]
           out == book_service_appointment(sessDf[s], c.vehicle_registration,
                                           c.service_center_name, c.date, c.time) IN
        /\ appointments' = IF out.saved THEN save_data(out.df, appointments)
                           ELSE appointments
        /\ writeLog' = IF out.saved THEN Append(writeLog, s) ELSE writeLog
        /\ sessResult' = [sessResult EXCEPT ![s] = out.result]
    /\ sessPc' = [sessPc EXCEPT ![s] = "done"]
    /\ UNCHANGED <<chatVars, graphVars, asstVars, apptCall, apptResult, ccpVars,
                   mailVars, userVars, rewriteVars, sessCall, sessDf>>

InitRace ==
    /\ InitChatVars
    /\ appointments \in InitTables
    /\ apptCall = NoCall
    /\ apptResult = NoResult
    /\ InitRaceIdle
    /\ InitCcpIdle
    /\ InitMailIdle
    /\ InitUserIdle
    /\ InitRewriteIdle

NextRace ==
    \/ \E s \in Sessions : SessionLoad(s)
    \/ \E s \in Sessions : SessionFinish(s)

SpecRace == InitRace /\ [][NextRace]_vars

\* the row session s's successful call created
SessionRow(s) ==
    Row(sessResult[s].appointment_id, sessCall[s].vehicle_registration,
        Head(MatchingCenters(sessCall[s].service_center_name)),
        sessCall[s].date, sessCall[s].time, "confirmed")

\* both calls returned success from the same loaded table: each had loaded
\* before the other wrote
BothSucceededRacing ==
    /\ \A s \in Sessions : sessPc[s] = "done" /\ sessResult[s].success
    /\ sessDf[1] = sessDf[2]

\* C8: when both concurrent calls read the table before either writes and
\* both return success, they are assigned the same appointment_id and the
\* later full-table write discards the earlier writer's record: the table is
\* the loaded table plus the later writer's row only.
C8_RaceLosesRecord ==
    BothSucceededRacing =>
        /\ sessResult[1].appointment_id = sessResult[2].appointment_id
        /\ Len(writeLog) = 2
        /\ appointments = Append(sessDf[writeLog[2]], SessionRow(writeLog[2]))
        /\ Len(appointments) = Len(sessDf[writeLog[1]]) + 1
        /\ (SessionRow(writeLog[1]) # SessionRow(writeLog[2])
              => ~InSeq(SessionRow(writeLog[1]), appointments))

\* both calls returned success for the same slot with the same identifier,
\* and the table holds one new record
C8_Witness ==
    /\ BothSucceededRacing
    /\ SameSlot(SessionRow(1), SessionRow(2))
    /\ sessResult[1].appointment_id = sessResult[2].appointment_id
    /\ Len(appointments) = Len(sessDf[1]) + 1

(***************************************************************************)
(* The CCP tools (src/core.py): check_ccp_eligibility,                     *)
(* purchase_ccp_package, cancel_warranty_service and file_ccp_claim over   *)
(* the vehicles, warranties and claims tables.  Time is counted in ticks   *)
(* since midnight of the vehicle's purchase date, TicksPerDay ticks a day, *)
(* so that datetime.now() can fall at midnight or later in a day.          *)
(***************************************************************************)
MaxWarranties == 3
MaxClaims == 2

\* timedelta(days=21*30)
EligibilityWindowDays == 21 * 30

\* the instants at which a tool may be called: 20 months after the purchase,
\* the end of the window at midnight and later that day, 21 and 22 calendar
\* months after the purchase
Instants ==
    {244 * TicksPerDay, EligibilityWindowDays * TicksPerDay,
     EligibilityWindowDays * TicksPerDay + 1, 639 * TicksPerDay, 670 * TicksPerDay}

FirstInstant == CHOOSE t \in Instants : \A u \in Instants : t <= u

VehicleRow(ew, ccp, day) ==
    [has_extended_warranty |-> ew, has_ccp |-> ccp, purchase_day |-> day]

\* customer_vehicles.csv at the start: a vehicle with Extended Warranty, one
\* without, and one holding an active CCP
InitVehicles ==
    [r \in {"MH01AB1234", "MH02CD5678", "MH03EF9012"} |->
        CASE r = "MH01AB1234" -> VehicleRow(TRUE, FALSE, 0)
          [] r = "MH02CD5678" -> VehicleRow(FALSE, FALSE, 0)
          [] OTHER -> VehicleRow(TRUE, TRUE, 0)]

WarrantyRow(id, reg, type, package, status) ==
    [warranty_id |-> id, vehicle_registration |-> reg, warranty_type |-> type,
     package_type |-> package, status |-> status]

\* warranties.csv at the start
InitWarranties ==
    << WarrantyRow(1, "MH03EF9012", "ccp", "1year", "active"),
       WarrantyRow(2, "MH01AB1234", "extended", "2year", "active") >>

ClaimRow(id, reg, type, status) ==
    [claim_id |-> id, vehicle_registration |-> reg, claim_type |-> type,
     status |-> status]

CcpRegistrations == DOMAIN InitVehicles \cup {"XX00XX0000"}
PackageTypes == {"1year", "5year"}
ClaimTypes == {"water_damage", "rodent_damage", "theft"}
WarrantyIds == 1..(MaxWarranties + 1)

\* package_map and the duration_years column of ccp_packages.csv
package_map == [t \in {"1year", "2year", "3year"} |->
                   CASE t = "1year" -> 1 [] t = "2year" -> 2 [] OTHER -> 3]
ccp_package_years == {1, 2, 3}

valid_claim_types == {"water_damage", "fuel_damage", "rodent_damage", "insect_damage"}

\* error and reason texts, without the interpolated arguments
CcpVehicleNotFound == "Vehicle with registration not found."
EwRequiredReason == "Extended Warranty is required before purchasing CCP. Please purchase Extended Warranty first."
AlreadyHasCcp == "Vehicle already has an active CCP package."
WindowExpiredReason == "Purchase window expired."
EwRequired == "Extended Warranty is required before purchasing CCP."
InvalidPackageType == "Invalid package type. Choose '1year', '2year', or '3year'."
PackageNotFound == "Package not found."
WarrantyNotFound == "Warranty ID not found."
ActiveNotCancellable == "Active warranties cannot be cancelled. Please contact customer support."
StatusNotCancellable == "Warranty with this status cannot be cancelled."
NoCcpOnVehicle == "Vehicle does not have an active CCP package. Claims can only be filed with active CCP coverage."
NoActiveCcpWarranty == "No active CCP warranty found for this vehicle."
InvalidClaimType == "Invalid claim type."

CcpError(text) ==
    [success |-> FALSE, error |-> text, eligible |-> FALSE, reason |-> "", id |-> 0]
CcpSuccess(id) ==
    [success |-> TRUE, error |-> "", eligible |-> FALSE, reason |-> "", id |-> id]
NotEligible(reason) ==
    [success |-> FALSE, error |-> "", eligible |-> FALSE, reason |-> reason, id |-> 0]
Eligible ==
    [success |-> FALSE, error |-> "", eligible |-> TRUE, reason |-> "", id |-> 0]

\* current_date > eligibility_end_date
WindowExpired(purchase_day, t) ==
    t > (purchase_day + EligibilityWindowDays) * TicksPerDay

check_ccp_eligibility_ccp_first(vehicles_df, t, vehicle_registration) ==
    IF vehicle_registration \notin DOMAIN vehicles_df
    THEN CcpError(CcpVehicleNotFound)
    ELSE LET vehicle_info == vehicles_df[vehicle_registration] IN
         IF vehicle_info.has_ccp THEN NotEligible(AlreadyHasCcp)
         ELSE IF ~vehicle_info.has_extended_warranty THEN NotEligible(EwRequiredReason)
         ELSE IF WindowExpired(vehicle_info.purchase_day, t)
         THEN NotEligible(WindowExpiredReason)
         ELSE Eligible

check_ccp_eligibility(vehicles_df, t, vehicle_registration) ==
    IF vehicle_registration \notin DOMAIN vehicles_df
    THEN CcpError(CcpVehicleNotFound)
    ELSE LET vehicle_info == vehicles_df[vehicle_registration] IN
         IF ~vehicle_info.has_extended_warranty THEN NotEligible(EwRequiredReason)
         ELSE IF vehicle_info.has_ccp THEN NotEligible(AlreadyHasCcp)
         ELSE IF WindowExpired(vehicle_info.purchase_day, t)
         THEN NotEligible(WindowExpiredReason)
         ELSE Eligible

\* what a CCP tool call leaves: its return value and the three tables
CcpOut(result, vehicles_df, warranties_df, claims_df) ==
    [result |-> result, vehicles |-> vehicles_df, warranties |-> warranties_df,
     claims |-> claims_df]

MaxOf(S) == CHOOSE m \in S : \A x \in S : x <= m

\* warranties_df['warranty_id'].max() + 1 if not warranties_df.empty else 1
NewWarrantyId(warranties_df) ==
    IF Len(warranties_df) = 0 THEN 1
    ELSE MaxOf({warranties_df[i].warranty_id : i \in 1..Len(warranties_df)}) + 1

\* a purchase that records the new CCP as active at once
purchase_ccp_package_activated(vehicles_df, warranties_df, claims_df, vehicle_registration, package_type) ==
    IF vehicle_registration \notin DOMAIN vehicles_df
    THEN CcpOut(CcpError(CcpVehicleNotFound), vehicles_df, warranties_df, claims_df)
    ELSE LET vehicle_info == vehicles_df[vehicle_registration] IN
         IF ~vehicle_info.has_extended_warranty
         THEN CcpOut(CcpError(EwRequired), vehicles_df, warranties_df, claims_df)
         ELSE IF vehicle_info.has_ccp
         THEN CcpOut(CcpError(AlreadyHasCcp), vehicles_df, warranties_df, claims_df)
         ELSE IF package_type \notin DOMAIN package_map
         THEN CcpOut(CcpError(InvalidPackageType), vehicles_df, warranties_df, claims_df)
         ELSE IF package_map[package_type] \notin ccp_package_years
         THEN CcpOut(CcpError(PackageNotFound), vehicles_df, warranties_df, claims_df)
         ELSE LET new_warranty_id == NewWarrantyId(warranties_df) IN
              CcpOut(CcpSuccess(new_warranty_id),
                     [vehicles_df EXCEPT ![vehicle_registration].has_ccp = TRUE],
                     Append(warranties_df,
                            WarrantyRow(new_warranty_id, vehicle_registration,
                                        "ccp", package_type, "active")),
                     claims_df)

purchase_ccp_package(vehicles_df, warranties_df, claims_df, vehicle_registration, package_type) ==
    IF vehicle_registration \notin DOMAIN vehicles_df
    THEN CcpOut(CcpError(CcpVehicleNotFound), vehicles_df, warranties_df, claims_df)
    ELSE LET vehicle_info == vehicles_df[vehicle_registration] IN
         IF ~vehicle_info.has_extended_warranty
         THEN CcpOut(CcpError(EwRequired), vehicles_df, warranties_df, claims_df)
         ELSE IF vehicle_info.has_ccp
         THEN CcpOut(CcpError(AlreadyHasCcp), vehicles_df, warranties_df, claims_df)
         ELSE IF package_type \notin DOMAIN package_map
         THEN CcpOut(CcpError(InvalidPackageType), vehicles_df, warranties_df, claims_df)
         ELSE IF package_map[package_type] \notin ccp_package_years
         THEN CcpOut(CcpError(PackageNotFound), vehicles_df, warranties_df, claims_df)
         ELSE LET new_warranty_id == NewWarrantyId(warranties_df) IN
              CcpOut(CcpSuccess(new_warranty_id),
                     [vehicles_df EXCEPT ![vehicle_registration].has_ccp = TRUE],
                     Append(warranties_df,
                            WarrantyRow(new_warranty_id, vehicle_registration,
                                        "ccp", package_type, "pending_payment")),
                     claims_df)

HasWarranty(warranties_df, warranty_id) ==
    \E i \in 1..Len(warranties_df) : warranties_df[i].warranty_id = warranty_id

FirstWarranty(warranties_df, warranty_id) ==
    warranties_df[CHOOSE i \in 1..Len(warranties_df) :
        /\ warranties_df[i].warranty_id = warranty_id
        /\ \A j \in 1..(i - 1) : warranties_df[j].warranty_id # warranty_id]

\* a cancellation that leaves the vehicle's has_ccp flag as it is
cancel_warranty_service_keeping_flag(vehicles_df, warranties_df, claims_df, warranty_id) ==
    IF ~HasWarranty(warranties_df, warranty_id)
    THEN CcpOut(CcpError(WarrantyNotFound), vehicles_df, warranties_df, claims_df)
    ELSE LET warranty == FirstWarranty(warranties_df, warranty_id) IN
         IF warranty.status = "active"
         THEN CcpOut(CcpError(ActiveNotCancellable), vehicles_df, warranties_df, claims_df)
         ELSE IF warranty.status # "pending_payment"
         THEN CcpOut(CcpError(StatusNotCancellable), vehicles_df, warranties_df, claims_df)
         ELSE CcpOut(CcpSuccess(warranty_id),
                     vehicles_df,
                     [i \in 1..Len(warranties_df) |->
                         IF warranties_df[i].warranty_id = warranty_id
                         THEN [warranties_df[i] EXCEPT !.status = "cancelled"]
                         ELSE warranties_df[i]],
                     claims_df)

cancel_warranty_service(vehicles_df, warranties_df, claims_df, warranty_id) ==
    IF ~HasWarranty(warranties_df, warranty_id)
    THEN CcpOut(CcpError(WarrantyNotFound), vehicles_df, warranties_df, claims_df)
    ELSE LET warranty == FirstWarranty(warranties_df, warranty_id) IN
         IF warranty.status = "active"
         THEN CcpOut(CcpError(ActiveNotCancellable), vehicles_df, warranties_df, claims_df)
         ELSE IF warranty.status # "pending_payment"
         THEN CcpOut(CcpError(StatusNotCancellable), vehicles_df, warranties_df, claims_df)
         ELSE CcpOut(CcpSuccess(warranty_id),
                     IF warranty.warranty_type = "ccp"
                        /\ warranty.vehicle_registration \in DOMAIN vehicles_df
                     THEN [vehicles_df EXCEPT ![warranty.vehicle_registration].has_ccp = FALSE]
                     ELSE vehicles_df,
                     [i \in 1..Len(warranties_df) |->
                         IF warranties_df[i].warranty_id = warranty_id
                         THEN [warranties_df[i] EXCEPT !.status = "cancelled"]
                         ELSE warranties_df[i]],
                     claims_df)

\* active_ccp of file_ccp_claim is not empty
HasActiveCcpOrPending(warranties_df, vehicle_registration) ==
    \E i \in 1..Len(warranties_df) :
        /\ warranties_df[i].vehicle_registration = vehicle_registration
        /\ warranties_df[i].warranty_type = "ccp"
        /\ warranties_df[i].status \in {"active", "pending_payment"}

HasActiveCcp(warranties_df, vehicle_registration) ==
    \E i \in 1..Len(warranties_df) :
        /\ warranties_df[i].vehicle_registration = vehicle_registration
        /\ warranties_df[i].warranty_type = "ccp"
        /\ warranties_df[i].status = "active"

\* claims_df['claim_id'].max() + 1 if not claims_df.empty else 1
NewClaimId(claims_df) ==
    IF Len(claims_df) = 0 THEN 1
    ELSE MaxOf({claims_df[i].claim_id : i \in 1..Len(claims_df)}) + 1

file_ccp_claim(vehicles_df, warranties_df, claims_df, vehicle_registration, claim_type) ==
    IF vehicle_registration \notin DOMAIN vehicles_df
    THEN CcpOut(CcpError(CcpVehicleNotFound), vehicles_df, warranties_df, claims_df)
    ELSE IF ~vehicles_df[vehicle_registration].has_ccp
    THEN CcpOut(CcpError(NoCcpOnVehicle), vehicles_df, warranties_df, claims_df)
    ELSE IF ~HasActiveCcp(warranties_df, vehicle_registration)
    THEN CcpOut(CcpError(NoActiveCcpWarranty), vehicles_df, warranties_df, claims_df)
    ELSE IF claim_type \notin valid_claim_types
    THEN CcpOut(CcpError(InvalidClaimType), vehicles_df, warranties_df, claims_df)
    ELSE LET new_claim_id == NewClaimId(claims_df) IN
         CcpOut(CcpSuccess(new_claim_id), vehicles_df, warranties_df,
                Append(claims_df, ClaimRow(new_claim_id, vehicle_registration,
                                           claim_type, "submitted")))

\* ---- the CCP tools called one after another ----
CcpCall(op, reg, package, id, type) ==
    [op |-> op, vehicle_registration |-> reg, package_type |-> package,
     warranty_id |-> id, claim_type |-> type]

\* the call returns out.result and the tables are as the call saved them
CcpReturns(out) ==
    /\ ccpResult' = out.result
    /\ vehicles' = out.vehicles
    /\ warranties' = out.warranties
    /\ claims' = out.claims
    /\ UNCHANGED <<chatVars, graphVars, asstVars, apptVars, raceVars, userVars, rewriteVars,
                   now>>

CheckCcpEligibility ==
    \E reg \in CcpRegistrations :
        /\ ccpCall' = CcpCall("check_eligibility", reg, "", 0, "")
        /\ notice' = NoNotice
        /\ CcpReturns(CcpOut(check_ccp_eligibility(vehicles, now, reg),
                             vehicles, warranties, claims))

PurchaseCcp ==
    \E reg \in CcpRegistrations, package \in PackageTypes :
        LET out == purchase_ccp_package(vehicles, warranties, claims, reg, package) IN
        /\ out.result.success => Len(warranties) < MaxWarranties
        /\ ccpCall' = CcpCall("purchase", reg, package, 0, "")
        /\ notice' \in IF out.result.success THEN PurchaseNotices ELSE {NoNotice}
        /\ CcpReturns(out)

CancelWarranty ==
    \E id \in WarrantyIds :
        /\ ccpCall' = CcpCall("cancel", "", "", id, "")
        /\ notice' = NoNotice
        /\ CcpReturns(cancel_warranty_service(vehicles, warranties, claims, id))

FileClaim ==
    \E reg \in CcpRegistrations, type \in ClaimTypes :
        LET out == file_ccp_claim(vehicles, warranties, claims, reg, type) IN
        /\ out.result.success => Len(claims) < MaxClaims
        /\ ccpCall' = CcpCall("file_claim", reg, "", 0, type)
        /\ notice' \in IF out.result.success THEN ClaimNotices ELSE {NoNotice}
        /\ CcpReturns(out)

\* time passes between two calls; no call is outstanding
AdvanceTime ==
    /\ \E t \in Instants : t > now /\ now' = t
    /\ ccpCall' = NoCcpCall
    /\ ccpResult' = NoCcpResult
    /\ notice' = NoNotice
    /\ UNCHANGED <<chatVars, graphVars, asstVars, apptVars, raceVars, userVars, rewriteVars,
                   vehicles, warranties, claims>>

InitCcp ==
    /\ InitChatVars
    /\ appointments = <<>>
    /\ apptCall = NoCall
    /\ apptResult = NoResult
    /\ InitRaceIdle
    /\ vehicles = InitVehicles
    /\ warranties = InitWarranties
    /\ claims = <<>>
    /\ now = FirstInstant
    /\ ccpCall = NoCcpCall
    /\ ccpResult = NoCcpResult
    /\ InitMailIdle
    /\ InitUserIdle
    /\ InitRewriteIdle

NextCcp ==
    \/ CheckCcpEligibility
    \/ PurchaseCcp
    \/ CancelWarranty
    \/ FileClaim
    \/ AdvanceTime

SpecCcp == InitCcp /\ [][NextCcp]_vars

\* ---- properties of the CCP tools ----
\* the conditions under which a claim may be filed
FileClaimAllowed(vehicles_df, warranties_df, call) ==
    /\ call.vehicle_registration \in DOMAIN vehicles_df
    /\ vehicles_df[call.vehicle_registration].has_ccp
    /\ \E i \in 1..Len(warranties_df) :
        /\ warranties_df[i].vehicle_registration = call.vehicle_registration
        /\ warranties_df[i].warranty_type = "ccp"
        /\ warranties_df[i].status = "active"
    /\ call.claim_type \in {"water_damage", "fuel_damage", "rodent_damage", "insect_damage"}

ClaimAppended(call) ==
    /\ Len(claims') = Len(claims) + 1
    /\ SubSeq(claims', 1, Len(claims)) = claims
    /\ Last(claims').status = "submitted"
    /\ Last(claims').vehicle_registration = call.vehicle_registration
    /\ Last(claims').claim_type = call.claim_type

\* C9: file_ccp_claim returns success, with a 'submitted' record appended,
\* only when the vehicle exists, has_ccp is set, an active 'ccp' warranty row
\* exists for it and claim_type is valid; in every other case it returns an
\* error and the claims table is unchanged.
C9_ClaimOnlyWithActiveCcp ==
    [][ccpCall'.op = "file_claim" =>
          /\ ccpResult'.success =>
                (FileClaimAllowed(vehicles, warranties, ccpCall') /\ ClaimAppended(ccpCall'))
          /\ ~FileClaimAllowed(vehicles, warranties, ccpCall') =>
                (~ccpResult'.success /\ ccpResult'.error # "" /\ claims' = claims)
          /\ (claims' # claims) => ccpResult'.success]_vars

C9_Witness ==
    /\ ccpCall.op = "file_claim"
    /\ ccpResult.success
    /\ Len(claims) > 0
    /\ Last(claims).status = "submitted"

\* check_ccp_eligibility would return eligible True for the vehicle now
WouldBeEligible(reg) == check_ccp_eligibility(vehicles, now, reg).eligible

\* C10: purchase_ccp_package creates the CCP warranty record and sets has_ccp
\* only for a vehicle for which check_ccp_eligibility would return eligible
\* True at that moment; otherwise it returns an error and changes no table.
C10_PurchaseOnlyWhenEligible ==
    [][ccpCall'.op = "purchase" =>
          IF WouldBeEligible(ccpCall'.vehicle_registration)
          THEN TRUE
          ELSE /\ ~ccpResult'.success
               /\ ccpResult'.error # ""
               /\ UNCHANGED <<vehicles, warranties, claims>>]_vars

\* ---- the eligibility window ----
\* the calendar, counted from 01/01/2024 (day 0)
IsLeapYear(y) == (y % 4 = 0 /\ y % 100 # 0) \/ y % 400 = 0

DaysInMonth(y, m) ==
    CASE m = 2 -> IF IsLeapYear(y) THEN 29 ELSE 28
      [] m \in {4, 6, 9, 11} -> 30
      [] OTHER -> 31

\* the day number of the date n calendar months after 01/01/2024
RECURSIVE DaysAfterMonths(_)
DaysAfterMonths(n) ==
    IF n = 0 THEN 0
    ELSE DaysAfterMonths(n - 1)
         + DaysInMonth(2024 + ((n - 1) \div 12), ((n - 1) % 12) + 1)

\* the latest call checked the eligibility of a vehicle of the table
CheckedVehicle ==
    /\ ccpCall.op = "check_eligibility"
    /\ ccpCall.vehicle_registration \in DOMAIN vehicles

\* C11: for a vehicle with Extended Warranty and no CCP, bought on
\* 01/01/2024, check_ccp_eligibility returns eligible True exactly on the days
\* up to and including the date 21 calendar months after the purchase (True
\* at +20 months), and False with the expired-window reason later (at +22
\* months).
C11_EligibleWithin21Months ==
    (/\ CheckedVehicle
     /\ vehicles[ccpCall.vehicle_registration].has_extended_warranty
     /\ ~vehicles[ccpCall.vehicle_registration].has_ccp
     /\ vehicles[ccpCall.vehicle_registration].purchase_day = 0)
    => /\ ccpResult.eligible <=> (now \div TicksPerDay) <= DaysAfterMonths(21)
       /\ ~ccpResult.eligible => ccpResult.reason = WindowExpiredReason

(***************************************************************************)
(* check_ccp_eligibility as a function of the vehicle row and the clock:   *)
(* the vehicles table holds one vehicle with any combination of the two    *)
(* flags and either purchase day, and the clock starts at any instant.     *)
(***************************************************************************)
PurchaseDays == {0, 30}

InitEligibility ==
    /\ InitChatVars
    /\ appointments = <<>>
    /\ apptCall = NoCall
    /\ apptResult = NoResult
    /\ InitRaceIdle
    /\ vehicles \in [{"MH01AB1234"} ->
                       {VehicleRow(ew, ccp, d) :
                           ew \in BOOLEAN, ccp \in BOOLEAN, d \in PurchaseDays}]
    /\ warranties = <<>>
    /\ claims = <<>>
    /\ now \in Instants
    /\ ccpCall = NoCcpCall
    /\ ccpResult = NoCcpResult
    /\ InitMailIdle
    /\ InitUserIdle
    /\ InitRewriteIdle

NextEligibility ==
    \/ CheckCcpEligibility
    \/ AdvanceTime

SpecEligibility == InitEligibility /\ [][NextEligibility]_vars

\* C12: for a vehicle whose has_extended_warranty is False,
\* check_ccp_eligibility returns eligible False with the
\* extended-warranty-required reason, whatever the purchase date, the current
\* date and has_ccp are.
C12_NoExtendedWarrantyNotEligible ==
    (CheckedVehicle /\ ~vehicles[ccpCall.vehicle_registration].has_extended_warranty)
    => /\ ~ccpResult.eligible
       /\ ccpResult.error = ""
       /\ ccpResult.reason = EwRequiredReason

\* a vehicle without Extended Warranty that holds a CCP, checked inside the
\* window
C12_Witness ==
    /\ CheckedVehicle
    /\ ~vehicles[ccpCall.vehicle_registration].has_extended_warranty
    /\ vehicles[ccpCall.vehicle_registration].has_ccp
    /\ ~WindowExpired(vehicles[ccpCall.vehicle_registration].purchase_day, now)
    /\ ccpResult.reason = EwRequiredReason

(***************************************************************************)
(* The tools of one process, called one after another.  The appointment    *)
(* tools work on appointments.csv only and the CCP tools on the vehicle,   *)
(* warranty and claim tables only, so a run works on the tables it started *)
(* with: the appointment tables of InitAppt or the CCP tables of InitCcp.  *)
(***************************************************************************)
CcpTablesLoaded == DOMAIN vehicles # {}

InitTools == InitAppt \/ InitCcp

NextTools ==
    \/ ~CcpTablesLoaded /\ NextAppt
    \/ CcpTablesLoaded /\ NextCcp

SpecTools == InitTools /\ [][NextTools]_vars

\* the response tells the customer that the confirmation was sent
ReportsSent(n) ==
    \/ n.line = ConfirmationSentLine
    \/ n.advisory = EmailSentTo
    \/ n.email_sent

FailureAdvisories ==
    {BookCouldNotBeSent, BookEmailFailed, ClaimCouldNotBeSent, ClaimEmailFailed,
     NoAddressInProfile, PurchaseEmailFailed, NoEmailProvided}

\* the call the notice belongs to returned success
NoticeCallSucceeded ==
    /\ notice.op = "book" => apptResult.success
    /\ notice.op \in {"purchase", "file_claim"} => ccpResult.success

\* C13: when the confirmation email of book_service_appointment,
\* file_ccp_claim or purchase_ccp_package is not delivered, the call has
\* still returned success and its response carries an advisory saying that
\* the confirmation failed or is unavailable; the response never reports
\* the confirmation as sent.
C13_FailedEmailNeverReportedSent ==
    (notice.op # "none" /\ ~notice.delivered)
    => /\ NoticeCallSucceeded
       /\ notice.advisory \in FailureAdvisories
       /\ ~ReportsSent(notice)

(***************************************************************************)
(* The current user.  The login handler of main.py writes the user's id to *)
(* user_id.conf and the logout handler removes the file.  core.py reads    *)
(* the file into the module global user_id when the module is imported,    *)
(* which happens once in a process; show_my_vehicles, show_my_warranties,  *)
(* show_my_claims and show_customer_info filter by that global.            *)
(* book_service_appointment opens user_id.conf in the call.                *)
(***************************************************************************)
\* users.csv and customers.csv; customer 104 has registered no vehicle
UserIds == {101, 102, 103, 104, 105}

\* customer_vehicles.csv: registration -> customer_id
customer_id ==
    [reg \in {"MH01AB1234", "MH02CD5678", "MH03EF9012", "MH04GH3456"} |->
        CASE reg = "MH01AB1234" -> 101
          [] reg = "MH02CD5678" -> 102
          [] reg = "MH03EF9012" -> 103
          [] OTHER -> 105]

\* warranties.csv and claims.csv: the vehicle of each row
warranty_vehicle == <<"MH03EF9012", "MH01AB1234", "MH02CD5678">>
claim_vehicle == <<"MH03EF9012", "MH02CD5678">>

CurrentUserTools ==
    {"show_my_vehicles", "show_my_warranties", "show_my_claims",
     "show_customer_info"}

\* vehicles_df[vehicles_df['customer_id'] == user_id]
user_vehicles(uid) == {reg \in DOMAIN customer_id : customer_id[reg] = uid}

\* the customers whose records the tool returns for the global user_id uid
show_my_vehicles(uid) == {customer_id[reg] : reg \in user_vehicles(uid)}

show_my_warranties(uid) ==
    {customer_id[warranty_vehicle[i]] :
        i \in {j \in DOMAIN warranty_vehicle : warranty_vehicle[j] \in user_vehicles(uid)}}

show_my_claims(uid) ==
    {customer_id[claim_vehicle[i]] :
        i \in {j \in DOMAIN claim_vehicle : claim_vehicle[j] \in user_vehicles(uid)}}

\* customers_df[customers_df['user_id'] == user_id]
show_customer_info(uid) == {u \in UserIds : u = uid}

\* the user whose profile book_service_appointment reads: the id in
\* user_id.conf at the time of the call
book_profile(conf) == {u \in UserIds : u = conf}

Shown(tool, users) == [tool |-> tool, users |-> users]

KeepStores == UNCHANGED <<chatVars, graphVars, asstVars, apptVars, raceVars, ccpVars, mailVars, rewriteVars>>

\* main.py, "if login_button": the user is found and the id is written; the
\* page is drawn again and no tool call is outstanding
Login ==
    /\ ~logged_in
    /\ \E u \in UserIds : user_id_conf' = u
    /\ logged_in' = TRUE
    /\ shown' = NoShown
    /\ UNCHANGED user_id
    /\ KeepStores

\* main.py, the Logout button: the session is cleared, the file removed
Logout ==
    /\ logged_in
    /\ logged_in' = FALSE
    /\ user_id_conf' = 0
    /\ shown' = NoShown
    /\ UNCHANGED user_id
    /\ KeepStores

\* the first import of core in the process: user_id is read from the file
ImportCore ==
    /\ logged_in
    /\ user_id = 0
    /\ user_id' = user_id_conf
    /\ UNCHANGED <<logged_in, user_id_conf, shown>>
    /\ KeepStores

\* a current-user tool called from the chat of the logged-in user
ShowMine ==
    /\ logged_in
    /\ user_id # 0
    /\ \E tool \in CurrentUserTools :
          shown' = Shown(tool,
                         CASE tool = "show_my_vehicles" -> show_my_vehicles(user_id)
                           [] tool = "show_my_warranties" -> show_my_warranties(user_id)
                           [] tool = "show_my_claims" -> show_my_claims(user_id)
                           [] OTHER -> show_customer_info(user_id))
    /\ UNCHANGED <<logged_in, user_id_conf, user_id>>
    /\ KeepStores

\* book_service_appointment detecting the profile of the caller
BookDetectsProfile ==
    /\ logged_in
    /\ user_id # 0
    /\ shown' = Shown("book_service_appointment", book_profile(user_id_conf))
    /\ UNCHANGED <<logged_in, user_id_conf, user_id>>
    /\ KeepStores

InitUser == InitChat

NextUser ==
    \/ Login
    \/ Logout
    \/ ImportCore
    \/ ShowMine
    \/ BookDetectsProfile

SpecUser == InitUser /\ [][NextUser]_vars

\* C14: after any sequence of login, logout, login as another user and tool
\* calls in one process, show_my_vehicles, show_my_warranties, show_my_claims
\* and show_customer_info return only records of the user whose id login
\* wrote last, the user whose profile book_service_appointment detects.
C14_ToolsActForLoggedInUser ==
    shown.tool \in CurrentUserTools
    => shown.users \subseteq book_profile(user_id_conf)

\* the latest call booked an appointment or moved one, and returned success
BookedOrMoved ==
    /\ apptCall.op \in {"book", "reschedule"}
    /\ apptResult.success

\* C15: book_service_appointment and reschedule_appointment return an error
\* for a date earlier than the current date, so no appointment is created on
\* or moved to a past date.
C15_PastDatesRejected ==
    BookedOrMoved => strptime(apptCall.date) >= Today(now)

\* the identifiers of a table, whose identifier column is f
IdsOf(df, f) == {df[i][f] : i \in 1..Len(df)}

PairwiseDistinct(df, f) ==
    \A i, j \in 1..Len(df) : i # j => df[i][f] # df[j][f]

\* 1 on an empty table, the largest identifier plus one otherwise
ExpectedNewId(df, f) == IF Len(df) = 0 THEN 1 ELSE MaxOf(IdsOf(df, f)) + 1

\* a step from table old to table new keeps the identifier of every row, and
\* a row it adds carries the expected new identifier
IdRule(old, new, f) ==
    /\ Len(new) \in {Len(old), Len(old) + 1}
    /\ \A i \in 1..Len(old) : new[i][f] = old[i][f]
    /\ Len(new) = Len(old) + 1 => new[Len(new)][f] = ExpectedNewId(old, f)

\* C16: a new appointment, warranty or claim gets identifier 1 when its
\* table is empty and the largest existing identifier plus one otherwise, and
\* the identifiers of each table stay pairwise distinct through any sequence
\* of create, cancel and reschedule calls made one after another.
C16_IdentifiersMaxPlusOne ==
    /\ [](/\ PairwiseDistinct(appointments, "appointment_id")
          /\ PairwiseDistinct(warranties, "warranty_id")
          /\ PairwiseDistinct(claims, "claim_id"))
    /\ [][/\ IdRule(appointments, appointments', "appointment_id")
          /\ IdRule(warranties, warranties', "warranty_id")
          /\ IdRule(claims, claims', "claim_id")]_vars

\* a booking on a one-row table whose row has identifier 2: the new row is
\* numbered 3, not by the size of the table
C16_Witness ==
    /\ apptCall.op = "book"
    /\ apptResult.success
    /\ Len(appointments) = 2
    /\ appointments[1].appointment_id = 2
    /\ appointments[2].appointment_id = 3
    /\ apptResult.appointment_id = 3

\* the assistant node is about to run on a log that a tools step extended
AssistantAfterTools ==
    /\ node = "assistant"
    /\ Len(messages) > 0
    /\ Last(messages).type = "tool"

\* the position of the last assistant message of the log
LastAssistantIndex(log) ==
    CHOOSE i \in 1..Len(log) :
        /\ log[i].type = "ai"
        /\ \A j \in (i + 1)..Len(log) : log[j].type # "ai"

\* the tool results of the log that carry call id c
ResultsFor(log, c) == {i \in 1..Len(log) : log[i].type = "tool" /\ log[i].call_id = c}

EveryCallAnsweredOnce(log) ==
    LET calls == log[LastAssistantIndex(log)].calls IN
    \A k \in 1..Len(calls) : Cardinality(ResultsFor(log, calls[k])) = 1

\* the tools step whose tool execution raised: the fallback wrote the results
ToolErrorStep ==
    /\ node = "tools"
    /\ Len(messages') > Len(messages)
    /\ \A i \in (Len(messages) + 1)..Len(messages') : messages'[i].content = "err"

\* C17: whenever the assistant node runs after a tools step, every tool call
\* of the preceding assistant message has exactly one tool result with that
\* call's id in the session log; when tool execution raises, the fallback
\* adds one error ToolMessage per tool call of the last message, each tagged
\* with that call's id, and the graph goes on to the assistant node (up to the
\* superstep limit of the graph, which ends any invocation).
C17_ToolCallsPaired ==
    /\ [](AssistantAfterTools => EveryCallAnsweredOnce(messages))
    /\ [][ToolErrorStep =>
            LET calls == Last(messages).calls IN
            /\ Len(messages') = Len(messages) + Len(calls)
            /\ \A k \in 1..Len(calls) :
                  /\ messages'[Len(messages) + k].type = "tool"
                  /\ messages'[Len(messages) + k].call_id = calls[k]
            /\ SubSeq(messages', 1, Len(messages)) = messages
            /\ node' = "assistant" \/ (node' = "raised" /\ steps' >= RecursionLimit)]_vars

\* the assistant node about to run after the fallback answered two tool calls
C17_Witness ==
    /\ AssistantAfterTools
    /\ Len(messages[LastAssistantIndex(messages)].calls) = 2
    /\ Last(messages).content = "err"
    /\ messages[Len(messages) - 1].content = "err"

\* the model raised in this step of Assistant.__call__
ModelRaisesNow ==
    /\ node = "assistant"
    /\ aPc = "invoke"
    /\ ~stepRaised
    /\ stepRaised'

\* C18: when the model raises inside the Assistant step, no entry of the
\* session message log is removed, reordered or has its content rewritten:
\* the log after the step is the log the step received with only the apology
\* message appended.
C18_RaiseLeavesLogIntact ==
    [][ModelRaisesNow
        => messages' = Append(entryMessages, ApologyMessage(Len(entryMessages) + 1))]_vars

(***************************************************************************)
(* The compaction step on any message log.  The assistant node receives a  *)
(* log of up to MaxLogLen messages of any kinds in any order: user         *)
(* messages, final assistant replies with a low, a middle or a high token  *)
(* count, assistant messages with a tool call, tool results with and       *)
(* without identifier fields, and the apology message.  The head of        *)
(* Assistant.__call__ compacts it.                                         *)
(***************************************************************************)
MaxLogLen == 4

MessageKinds ==
    {"human", "final_low", "final_mid", "final_high", "calls", "tool_ids",
     "tool_err", "apology"}

\* the message of kind k at position i of a log
MessageOfKind(k, i) ==
    CASE k = "human" -> HumanMessage(UserPrompt, i)
      [] k = "final_low" -> Msg("ai", PlainReply, TRUE, 100, <<>>, 0, i)
      [] k = "final_mid" -> Msg("ai", PlainReply, TRUE, 6000, <<>>, 0, i)
      [] k = "final_high" -> Msg("ai", PlainReply, TRUE, 8000, <<>>, 0, i)
      [] k = "calls" -> Msg("ai", "", TRUE, 8000, CallIds(i, 1), 0, i)
      [] k = "tool_ids" -> ToolMessage("ids", 0, i)
      [] k = "tool_err" -> ToolMessage("err", 0, i)
      [] OTHER -> ApologyMessage(i)

\* the logs of n messages
Logs(n) == {[i \in 1..n |-> MessageOfKind(kinds[i], i)] : kinds \in [1..n -> MessageKinds]}

InitCompact ==
    /\ chatPc = "invoking"
    /\ retry_count = 0
    /\ prompt = UserPrompt
    /\ chatResult = ""
    /\ attempts = <<>>
    /\ graphInvocations = 1
    /\ turns = 1
    /\ node = "assistant"
    /\ \E n \in 0..MaxLogLen : messages \in Logs(n)
    /\ steps = 0
    /\ aPc = "top"
    /\ localMessages = messages
    /\ handed = <<>>
    /\ reprompted = FALSE
    /\ reinvoked = FALSE
    /\ stepRaised = FALSE
    /\ invokedAfterRaise = FALSE
    /\ entryMessages = messages
    /\ InitStoreIdle

NextCompact == AssistantPrepare

SpecCompact == InitCompact /\ [][NextCompact]_vars

\* a is b with some messages left out: the messages of a are messages of b,
\* in the order they have in b
RECURSIVE IsSubsequence(_, _)
IsSubsequence(a, b) ==
    IF a = <<>> THEN TRUE
    ELSE IF b = <<>> THEN FALSE
    ELSE IF Head(a) = Head(b) THEN IsSubsequence(Tail(a), Tail(b))
    ELSE IsSubsequence(a, Tail(b))

\* the messages of a log, by their identifiers
MessageIds(log) == [i \in 1..Len(log) |-> log[i].id]

UserCount(log) == Cardinality({i \in 1..Len(log) : log[i].type = "human"})

\* the head of the assistant's loop runs
CompactionStep ==
    /\ node = "assistant"
    /\ aPc = "top"
    /\ aPc' = "invoke"

\* C19: for every message log, the log the compaction step produces
\* (clean_state, then the token-budget truncation, with clean_state2 on the
\* strict path) holds messages of the input log in the order they have
\* there, and no more user messages than the input.
C19_CompactionNeverReorders ==
    [][CompactionStep
        => /\ IsSubsequence(MessageIds(localMessages'), MessageIds(localMessages))
           /\ IsSubsequence(localMessages', messages')
           /\ UserCount(localMessages') <= UserCount(localMessages)]_vars

\* a compacted log that lost messages on the strict path and holds a
\* rewritten tool result
C19_Witness ==
    /\ aPc = "invoke"
    /\ Len(messages) = MaxLogLen
    /\ Len(localMessages) \in 2..(MaxLogLen - 1)
    /\ messages[MaxLogLen - 1].tokens > TokenHigh
    /\ \E i \in 1..Len(localMessages) : localMessages[i].content = "norm"

(***************************************************************************)
(* update_tool_messages on the text of a tool content.  The function finds *)
(* the fields with regular expressions on the text and writes the          *)
(* json.dumps of what it found.  The text of a name is modelled character  *)
(* by character: the expression "name":\s*"(.*?)" captures up to the next  *)
(* quote character, and json.dumps writes a backslash, a quote and a       *)
(* character outside ASCII as escape sequences.                            *)
(***************************************************************************)
MaxNameLen == 2
MaxRewrites == 2

\* a letter, a character outside ASCII, the backslash and the quote
NameChars == {"a", "é", "\\", "\""}

RawNames == UNION {[1..n -> NameChars] : n \in 0..MaxNameLen}

\* the group (.*?) of re.findall(r'"name":\s*"(.*?)"', content): the text up
\* to the first quote character
RECURSIVE findall_name(_)
findall_name(text) ==
    IF text = <<>> \/ Head(text) = "\"" THEN <<>>
    ELSE <<Head(text)>> \o findall_name(Tail(text))

\* json.dumps of one character of a string (ensure_ascii is True)
dumps_char(c) ==
    CASE c = "\\" -> <<"\\", "\\">>
      [] c = "\"" -> <<"\\", "\"">>
      [] c = "é" -> <<"\\", "u", "0", "0", "e", "9">>
      [] OTHER -> <<c>>

\* json.dumps of a string, without the enclosing quotes
RECURSIVE json_dumps(_)
json_dumps(text) ==
    IF text = <<>> THEN <<>>
    ELSE dumps_char(Head(text)) \o json_dumps(Tail(text))

\* update_tool_messages on the content: with no field found the content is
\* left as it is, otherwise it becomes the list of the fields found
update_tool_content(content) ==
    IF ~content.has_booking_id /\ ~content.has_name THEN content
    ELSE Content(content.has_booking_id, content.has_name,
                 IF content.has_name THEN json_dumps(findall_name(content.name))
                 ELSE <<>>,
                 FALSE)

ToolContentsText ==
    {Content(has_id, TRUE, name, other) :
        has_id \in BOOLEAN, name \in RawNames, other \in BOOLEAN}
    \cup {Content(has_id, FALSE, <<>>, other) : has_id \in BOOLEAN, other \in BOOLEAN}

InitRewrite ==
    /\ InitChatVars
    /\ appointments = <<>>
    /\ apptCall = NoCall
    /\ apptResult = NoResult
    /\ InitRaceIdle
    /\ InitCcpIdle
    /\ InitMailIdle
    /\ InitUserIdle
    /\ toolContent \in ToolContentsText
    /\ rewrites = 0

\* cleaned_messages[index] = update_tool_messages(step)
RewriteToolMessage ==
    /\ rewrites < MaxRewrites
    /\ toolContent' = update_tool_content(toolContent)
    /\ rewrites' = rewrites + 1
    /\ UNCHANGED <<chatVars, graphVars, asstVars, apptVars, raceVars, ccpVars,
                   mailVars, userVars>>

NextRewrite == RewriteToolMessage

SpecRewrite == InitRewrite /\ [][NextRewrite]_vars

\* C20: update_tool_messages is idempotent: for every tool message content,
\* applying the rewrite to content it has already rewritten leaves the
\* content as it is.
C20_RewriteIdempotent ==
    [][(rewrites >= 1 /\ rewrites' = rewrites + 1) => toolContent' = toolContent]_vars

(***************************************************************************)
(* The compaction step on the logs a session can hold.  When the assistant *)
(* node is entered the session log is a run of finished graph invocations  *)
(* followed by the open one.  A finished invocation is a user message,     *)
(* tool round-trips (an assistant message with a tool call, then its       *)
(* result) and a closing assistant message: a reply of the model or the    *)
(* apology.  The open invocation is a user message and the round-trips     *)
(* made so far.  Every message of the model carries the usage the provider *)
(* reported for it.                                                        *)
(***************************************************************************)
\* messages come in pairs after the first user message: a tool call and its
\* result, or a closing message and the next user message
MaxSessionPairs == 2

\* total_tokens of a model message: on the two thresholds, between and above
TokenCounts == {TokenLow, 6000, TokenHigh, 8000}

FinalKinds == {<<"final", t>> : t \in TokenCounts}
CallsKinds == {<<"calls", t>> : t \in TokenCounts}
ToolKinds == {<<"tool", "ids">>, <<"tool", "err">>}
ClosingKinds == FinalKinds \cup {<<"apology", 0>>}
SessionKinds == {<<"human", 0>>} \cup ClosingKinds \cup CallsKinds \cup ToolKinds

\* the order of the messages the graph appends to a thread: what may come
\* after a message of kind prev
MayFollow(prev, kind) ==
    CASE kind[1] = "human" -> prev \in ClosingKinds
      [] kind[1] = "calls" -> prev[1] \in {"human", "tool"}
      [] kind[1] = "tool" -> prev[1] = "calls"
      [] OTHER -> prev[1] \in {"human", "tool"}

\* the threads of n messages, by the kinds of their messages: the first is
\* the user message of the first invocation
RECURSIVE OrderedKinds(_)
OrderedKinds(n) ==
    IF n = 1 THEN {<< <<"human", 0>> >>}
    ELSE UNION {{Append(kinds, kind) :
                    kind \in {k \in SessionKinds : MayFollow(kinds[n - 1], k)}} :
                  kinds \in OrderedKinds(n - 1)}

\* the message at position i of the log with these kinds; a tool result
\* carries the id of the call of the assistant message before it
SessionMessage(kinds, i) ==
    CASE kinds[i][1] = "human" -> HumanMessage(UserPrompt, i)
      [] kinds[i][1] = "final" -> Msg("ai", PlainReply, TRUE, kinds[i][2], <<>>, 0, i)
      [] kinds[i][1] = "calls" -> Msg("ai", "", TRUE, kinds[i][2], CallIds(i, 1), 0, i)
      [] kinds[i][1] = "tool" -> ToolMessage(kinds[i][2], CallIds(i - 1, 1)[1], i)
      [] OTHER -> ApologyMessage(i)

\* the logs the assistant node can receive: the last message is the user
\* message of the invocation or a tool result
SessionLogs ==
    UNION {{[i \in 1..n |-> SessionMessage(kinds, i)] :
                kinds \in {k \in OrderedKinds(n) : k[n][1] \in {"human", "tool"}}} :
              n \in {1 + 2 * p : p \in 0..MaxSessionPairs}}

InitSession ==
    /\ chatPc = "invoking"
    /\ retry_count = 0
    /\ prompt = UserPrompt
    /\ chatResult = ""
    /\ attempts = <<>>
    /\ graphInvocations = 1
    /\ turns = 1
    /\ node = "assistant"
    /\ messages \in SessionLogs
    /\ steps = 0
    /\ aPc = "top"
    /\ localMessages = messages
    /\ handed = <<>>
    /\ reprompted = FALSE
    /\ reinvoked = FALSE
    /\ stepRaised = FALSE
    /\ invokedAfterRaise = FALSE
    /\ entryMessages = messages
    /\ InitStoreIdle

NextSession == AssistantPrepare

SpecSession == InitSession /\ [][NextSession]_vars

\* the head of the loop has run: localMessages is the log the model is
\* handed, entryMessages the log the node received
Compacted == node = "assistant" /\ aPc = "invoke"

\* state = clean_state(state) on the log the node received
CleanedLog == clean_state(entryMessages)

\* state.get("messages")[-2].response_metadata[...]['total_tokens'], 0 when
\* there is no such message or it has no response_metadata
UsageOf(log) ==
    IF Len(log) >= 2 /\ log[Len(log) - 1].meta THEN log[Len(log) - 1].tokens ELSE 0

\* C21: whenever the second-to-last message of the cleaned log carries usage
\* above 5000 and up to 7000, 7000 included, the log handed to the model is
\* the last 3 messages of the cleaned log.
C21_MidBandKeepsLastThree ==
    (Compacted /\ UsageOf(CleanedLog) > TokenLow /\ UsageOf(CleanedLog) <= TokenHigh)
        => localMessages = LastN(CleanedLog, 3)

\* the user messages and the assistant-final messages among the first j
\* messages of a log
UsersUpTo(log, j) == Cardinality({i \in 1..j : log[i].type = "human"})
BotsUpTo(log, j) == Cardinality({i \in 1..j : IsFinalAI(log[i])})

\* the assistant-final messages at which a turn closes: users == bots
ClosingPoints(log) ==
    {j \in 1..Len(log) : IsFinalAI(log[j]) /\ UsersUpTo(log, j) = BotsUpTo(log, j)}

LastClosingPoint(log) == IF ClosingPoints(log) = {} THEN 0 ELSE MaxOf(ClosingPoints(log))

\* a tool message, or an assistant message lacking content or usage metadata
IsMiddleStep(m) == m.type = "tool" \/ (m.type = "ai" /\ ~IsFinalAI(m))

\* C22: whenever the second-to-last message of the cleaned log carries usage
\* above 7000, the log handed to the model is the last 4 messages of
\* clean_state2 of the cleaned log: it has at most 4 messages, and every tool
\* or intermediate message in it comes after the last closing point of the
\* log, that is, belongs to the turn still open.
C22_HighBandStrictLastFour ==
    (Compacted /\ UsageOf(CleanedLog) > TokenHigh)
        => /\ localMessages = LastN(clean_state2(CleanedLog), 4)
           /\ Len(localMessages) <= 4
           /\ \A i \in 1..Len(localMessages) :
                IsMiddleStep(localMessages[i])
                    => localMessages[i].id > LastClosingPoint(entryMessages)

\* the strict path cut a longer log down to 4 messages that still hold a
\* tool result of the open turn
C22_Witness ==
    /\ Compacted
    /\ UsageOf(CleanedLog) > TokenHigh
    /\ Len(CleanedLog) > 4
    /\ Len(localMessages) = 4
    /\ \E i \in 1..4 : localMessages[i].type = "tool"

\* message i of the received log is not in the cleaned log
RemovedByClean(i) == \A k \in 1..Len(CleanedLog) : CleanedLog[k].id # entryMessages[i].id

\* C23: clean_state removes a tool message or an intermediate assistant
\* message only if a later assistant-final message of the log is a closing
\* point (users == bots there), and it retains, as they are, all tool and
\* intermediate messages after the last closing point.
C23_RemovalOnlyAtClosedTurn ==
    Compacted =>
        \A i \in 1..Len(entryMessages) :
            IsMiddleStep(entryMessages[i]) =>
                /\ RemovedByClean(i)
                    => \E j \in ClosingPoints(entryMessages) : j > i
                /\ i > LastClosingPoint(entryMessages)
                    => InSeq(entryMessages[i], CleanedLog)

\* a log with a closed turn that lost a middle step and an open turn that
\* keeps one
C23_Witness ==
    /\ Compacted
    /\ \E i, k \in 1..Len(entryMessages) :
        /\ IsMiddleStep(entryMessages[i]) /\ RemovedByClean(i)
        /\ IsMiddleStep(entryMessages[k]) /\ k > LastClosingPoint(entryMessages)
        /\ LastClosingPoint(entryMessages) > i

(***************************************************************************)
(* Routing of the graph: START -> assistant, assistant -> tools_condition, *)
(* tools -> assistant.                                                     *)
(***************************************************************************)
\* part_1_graph.invoke is called
InvocationStarts == chatPc = "loop" /\ chatPc' = "invoking"

\* the assistant node returned {"messages": result}
AssistantReturned == node = "assistant" /\ Len(messages') = Len(messages) + 1

\* the tools node ran
ToolsRan == node = "tools" /\ node' # "tools"

\* the invocation stops running nodes
InvocationEnds == node \in {"assistant", "tools"} /\ node' \notin {"assistant", "tools"}

\* the graph stopped the invocation at its superstep limit
LimitReached == node' = "raised" /\ steps' >= RecursionLimit

\* C24 as stated: each invocation starts at the assistant node; after an
\* assistant step the tools node runs if and only if the returned message
\* carries tool calls; after a tools step the assistant node always runs
\* next; the invocation ends exactly when an assistant message without tool
\* calls is produced.
C24_RoutingByToolCalls ==
    [][/\ InvocationStarts => node' = "assistant"
       /\ AssistantReturned => (node' = "tools" <=> Last(messages').calls # <<>>)
       /\ ToolsRan => node' = "assistant"
       /\ InvocationEnds <=> (AssistantReturned /\ Last(messages').calls = <<>>)]_vars

\* C24, amended: the same routing, except that the graph raises at its
\* superstep limit instead of running the next node: after an assistant
\* step with tool calls the tools node runs unless the limit is reached,
\* after a tools step the assistant node runs unless the limit is reached,
\* and the invocation ends exactly when an assistant message without tool
\* calls is produced or the limit is reached.
C24_RoutingUpToLimit ==
    [][/\ InvocationStarts => node' = "assistant"
       /\ AssistantReturned
            => /\ Last(messages').calls = <<>> => node' = "end"
               /\ Last(messages').calls # <<>> => (node' = "tools" \/ LimitReached)
               /\ node' = "tools" => Last(messages').calls # <<>>
       /\ ToolsRan => (node' = "assistant" \/ LimitReached)
       /\ InvocationEnds
            <=> \/ AssistantReturned /\ Last(messages').calls = <<>>
                \/ (AssistantReturned \/ ToolsRan) /\ LimitReached]_vars

\* an invocation that ended with a reply after a tool round-trip
C24_Witness ==
    /\ node = "end"
    /\ Len(messages) >= 4
    /\ messages[Len(messages) - 1].type = "tool"
    /\ Last(messages).type = "ai"
    /\ Last(messages).calls = <<>>

\* the tool result at position i of a log comes after an assistant message
\* of that log carrying the tool call with the same id
CallPrecedes(log, i) ==
    \E j \in 1..(i - 1) :
        /\ log[j].type = "ai"
        /\ \E k \in 1..Len(log[j].calls) : log[j].calls[k] = log[i].call_id

\* C25: in every log handed to the model, each tool result is preceded by
\* the assistant message carrying the tool call with the same call id.
C25_ToolResultsFollowTheirCall ==
    Compacted =>
        \A i \in 1..Len(localMessages) :
            localMessages[i].type = "tool" => CallPrecedes(localMessages, i)

\* the user message part_1_graph.invoke appended for the invocation that is
\* running: the last user message of the received log
OpeningUserMessage(log) ==
    log[MaxOf({i \in 1..Len(log) : log[i].type = "human"})]

\* C26: in every log handed to the model, the user message that opened the
\* current turn is present, also after two or more tool round-trips.
C26_OpeningUserMessageHanded ==
    Compacted => InSeq(OpeningUserMessage(entryMessages), localMessages)

\* the graph invocation ended with a reply of the model that carries no tool
\* call
TurnEndedWithReply == node = "end" /\ IsFinalAI(Last(messages))

\* C27: in every reachable session log, also after an apology or a retry
\* with a fallback prompt, when a turn ends with a tool-call-free assistant
\* reply clean_state finds users == bots at that reply, and the cleaned log
\* holds no assistant message with tool calls of that turn.
C27_TurnClosesAfterFaults ==
    TurnEndedWithReply
        => /\ Len(messages) \in ClosingPoints(messages)
           /\ \A i \in 1..Len(clean_state(messages)) :
                clean_state(messages)[i].calls = <<>>

(***************************************************************************)
(* purchase_ccp_package and cancel_warranty_service called one after       *)
(* another on any store of two vehicles and up to MaxInitWarranties        *)
(* warranty records in which has_ccp agrees with the records: a vehicle    *)
(* has the flag exactly when it has a CCP warranty that is active or       *)
(* pending payment, and it has at most one such warranty.  warranty_id is  *)
(* the key of the table.                                                   *)
(***************************************************************************)
MaxInitWarranties == 2

StoreRegistrations == {"MH01AB1234", "MH03EF9012"}
StoreStatuses == {"active", "pending_payment", "cancelled"}

\* the CCP warranties of a vehicle that are active or pending payment
LiveCcps(warranties_df, vehicle_registration) ==
    {i \in 1..Len(warranties_df) :
        /\ warranties_df[i].vehicle_registration = vehicle_registration
        /\ warranties_df[i].warranty_type = "ccp"
        /\ warranties_df[i].status \in {"active", "pending_payment"}}

FlagAgrees(vehicles_df, warranties_df) ==
    \A reg \in DOMAIN vehicles_df :
        vehicles_df[reg].has_ccp <=> LiveCcps(warranties_df, reg) # {}

AtMostOneLiveCcp(vehicles_df, warranties_df) ==
    \A reg \in DOMAIN vehicles_df : Cardinality(LiveCcps(warranties_df, reg)) <= 1

WarrantyTables ==
    UNION {[1..n -> {WarrantyRow(0, reg, type, "1year", status) :
                        reg \in StoreRegistrations, type \in {"ccp", "extended"},
                        status \in StoreStatuses}] : n \in 0..MaxInitWarranties}

\* the rows numbered by their position
Keyed(rows) == [i \in 1..Len(rows) |-> [rows[i] EXCEPT !.warranty_id = i]]

InitStores ==
    /\ InitChatVars
    /\ appointments = <<>>
    /\ apptCall = NoCall
    /\ apptResult = NoResult
    /\ InitRaceIdle
    /\ vehicles \in [StoreRegistrations ->
                       {VehicleRow(ew, ccp, 0) : ew \in BOOLEAN, ccp \in BOOLEAN}]
    /\ warranties \in {Keyed(rows) : rows \in WarrantyTables}
    /\ FlagAgrees(vehicles, warranties)
    /\ AtMostOneLiveCcp(vehicles, warranties)
    /\ claims = <<>>
    /\ now = FirstInstant
    /\ ccpCall = NoCcpCall
    /\ ccpResult = NoCcpResult
    /\ InitMailIdle
    /\ InitUserIdle
    /\ InitRewriteIdle

NextStores ==
    \/ PurchaseCcp
    \/ CancelWarranty

SpecStores == InitStores /\ [][NextStores]_vars

ActiveWarrantyIds(warranties_df) ==
    {warranties_df[i].warranty_id :
        i \in {j \in 1..Len(warranties_df) : warranties_df[j].status = "active"}}

\* the records purchase_ccp_package appended to warranties.csv
PurchasedRows == {i \in 1..Len(warranties) : i > Len(InitWarranties)}

\* the vehicle has a CCP record, and each of its CCP records was appended by
\* purchase_ccp_package
OnlyPurchasedCcp(vehicle_registration) ==
    LET ccps == {i \in 1..Len(warranties) :
                    /\ warranties[i].vehicle_registration = vehicle_registration
                    /\ warranties[i].warranty_type = "ccp"} IN
    ccps # {} /\ ccps \subseteq PurchasedRows

\* C29: after any sequence of tool calls the active warranties are among
\* those active at the start; a CCP created by purchase_ccp_package is
\* 'pending_payment' or 'cancelled'; and file_ccp_claim for a vehicle whose
\* only CCP records come from purchase_ccp_package returns an error.
C29_NoToolActivates ==
    /\ ActiveWarrantyIds(warranties) \subseteq ActiveWarrantyIds(InitWarranties)
    /\ \A i \in PurchasedRows :
        /\ warranties[i].warranty_type = "ccp"
        /\ warranties[i].status \in {"pending_payment", "cancelled"}
    /\ (ccpCall.op = "file_claim" /\ OnlyPurchasedCcp(ccpCall.vehicle_registration))
        => ~ccpResult.success

\* a claim was refused for a vehicle whose CCP, bought through the tool, is
\* still pending payment
C29_Witness ==
    /\ ccpCall.op = "file_claim"
    /\ ccpCall.claim_type \in valid_claim_types
    /\ OnlyPurchasedCcp(ccpCall.vehicle_registration)
    /\ vehicles[ccpCall.vehicle_registration].has_ccp
    /\ ccpResult = CcpError(NoActiveCcpWarranty)

(***************************************************************************)
(* The life of an appointment after its cancellation.                      *)
(***************************************************************************)
\* the call names an appointment that the table holds as cancelled
TargetsCancelled(df, call) ==
    /\ call.op \in {"cancel", "reschedule"}
    /\ HasAppointment(df, call.appointment_id)
    /\ FirstWithId(df, call.appointment_id).status = "cancelled"

\* a book request by a known vehicle for the slot of a cancelled appointment
\* that no confirmed or pending appointment occupies
BooksFreedSlot(df, call) ==
    /\ call.op = "book"
    /\ call.vehicle_registration \in VehicleRegistrations
    /\ Len(MatchingCenters(call.service_center_name)) > 0
    /\ \E i \in 1..Len(df) :
        /\ df[i].status = "cancelled"
        /\ df[i].service_center = Head(MatchingCenters(call.service_center_name))
        /\ df[i].appointment_date = call.date
        /\ df[i].appointment_time = call.time
    /\ ~RequestedSlotOccupied(df, call)

\* the request was granted: a confirmed appointment for the slot is appended
BookedAsRequested(call) ==
    /\ apptResult'.success
    /\ Len(appointments') = Len(appointments) + 1
    /\ SubSeq(appointments', 1, Len(appointments)) = appointments
    /\ Last(appointments').status = "confirmed"
    /\ Last(appointments').service_center = Head(MatchingCenters(call.service_center_name))
    /\ Last(appointments').appointment_date = call.date
    /\ Last(appointments').appointment_time = call.time

\* C30: a cancelled appointment stays as it is under every later operation;
\* a further cancel_appointment or reschedule_appointment on it returns an
\* error and changes nothing; and book_service_appointment books its
\* (service_center, date, time) slot again.
C30_CancelledStaysCancelled ==
    [][/\ \A i \in 1..Len(appointments) :
            appointments[i].status = "cancelled"
                => i <= Len(appointments') /\ appointments'[i] = appointments[i]
       /\ TargetsCancelled(appointments, apptCall') => RejectedUnchanged
       /\ BooksFreedSlot(appointments, apptCall') => BookedAsRequested(apptCall')]_vars

\* an appointment was booked and cancelled, and its slot is booked again
C30_Witness ==
    /\ apptCall.op = "book"
    /\ apptResult.success
    /\ \E i, j \in 1..Len(appointments) :
        /\ i < j
        /\ appointments[j].appointment_id = apptResult.appointment_id
        /\ appointments[i].status = "cancelled"
        /\ appointments[j].status = "confirmed"
        /\ SameSlot(appointments[i], appointments[j])

=============================================================================
